---------------------------- MODULE Spec2Model ----------------------------
(***************************************************************************)
(* Model of the hand-interpretation pipeline of dias-toffoli:              *)
(* ControllerManager (orchestrator), PositionController,                   *)
(* GestureController and DistanceController.                               *)
(*                                                                         *)
(* Numbers.  The program computes in IEEE doubles on coordinates           *)
(* normalised to [0,1].  The model computes in fixed point: a coordinate,  *)
(* an openness, a smoothing factor or a confidence v is the integer        *)
(* 1000*v (Unit == 1000), an angle is represented by 1000*cos(angle), and  *)
(* a time is an integer number of milliseconds.  Square roots and          *)
(* quotients round toward minus infinity.                                  *)
(*                                                                         *)
(* Nullable values.  null is the empty sequence and a present value v is   *)
(* the one-element sequence <<v>>.                                         *)
(***************************************************************************)
EXTENDS Integers, Sequences, FiniteSets, TLC

Unit == 1000

Null == << >>
Some(v) == << v >>

Min(a, b) == IF a < b THEN a ELSE b
Max(a, b) == IF a > b THEN a ELSE b

(* Math.sqrt on a non-negative integer, rounded down. *)
RECURSIVE SqrtIter(_, _, _)
SqrtIter(n, lo, hi) ==
  IF lo >= hi THEN lo
  ELSE LET mid == (lo + hi + 1) \div 2
       IN  IF mid * mid <= n THEN SqrtIter(n, mid, hi) ELSE SqrtIter(n, lo, mid - 1)

Sqrt(n) ==
  IF n <= 0 THEN 0
  ELSE IF n < 4194304 THEN SqrtIter(n, 0, Min(n, 2047))
  ELSE SqrtIter(n, 2048, 46340)

(***************************************************************************)
(* Landmark indices (HandLandmark enum); a hand's landmarks are an array   *)
(* indexed from 0.                                                         *)
(***************************************************************************)
WRIST == 0
THUMB_MCP == 2
THUMB_IP == 3
THUMB_TIP == 4
INDEX_FINGER_MCP == 5
INDEX_FINGER_PIP == 6
INDEX_FINGER_DIP == 7
INDEX_FINGER_TIP == 8
MIDDLE_FINGER_MCP == 9
MIDDLE_FINGER_PIP == 10
MIDDLE_FINGER_DIP == 11
MIDDLE_FINGER_TIP == 12
RING_FINGER_MCP == 13
RING_FINGER_PIP == 14
RING_FINGER_DIP == 15
RING_FINGER_TIP == 16
PINKY_MCP == 17
PINKY_PIP == 18
PINKY_DIP == 19
PINKY_TIP == 20

Pt(x, y, z) == [x |-> x, y |-> y, z |-> z]

(* The array (indexed from 0) of the elements of a sequence. *)
ArrayOf(seq) == [ i \in 0..(Len(seq) - 1) |-> seq[i + 1] ]

Length(array) == Cardinality(DOMAIN array)

(***************************************************************************)
(* The landmark sets the frames of the model carry: the hand shapes of the *)
(* repository's test fixtures, at scale 0.1, centred at (cx, cy).          *)
(***************************************************************************)
createMockLandmarks(cx, cy) ==
  ArrayOf(
  << Pt(cx, cy + 200, 0),
     Pt(cx - 150, cy + 150, 0), Pt(cx - 200, cy + 100, 0),
     Pt(cx - 220, cy + 50, 0),  Pt(cx - 250, cy, 0),
     Pt(cx - 75, cy + 100, 0),  Pt(cx - 75, cy, 0),
     Pt(cx - 75, cy - 100, 0),  Pt(cx - 75, cy - 200, 0),
     Pt(cx, cy + 100, 0),       Pt(cx, cy - 20, 0),
     Pt(cx, cy - 120, 0),       Pt(cx, cy - 220, 0),
     Pt(cx + 75, cy + 100, 0),  Pt(cx + 75, cy, 0),
     Pt(cx + 75, cy - 100, 0),  Pt(cx + 75, cy - 180, 0),
     Pt(cx + 150, cy + 100, 0), Pt(cx + 150, cy + 20, 0),
     Pt(cx + 150, cy - 50, 0),  Pt(cx + 150, cy - 120, 0) >>)

createClosedFistLandmarks(cx, cy) ==
  [ createMockLandmarks(cx, cy) EXCEPT
      ![INDEX_FINGER_TIP]  = Pt(cx - 30, cy + 150, 0),
      ![INDEX_FINGER_DIP]  = Pt(cx - 40, cy + 120, 0),
      ![INDEX_FINGER_PIP]  = Pt(cx - 50, cy + 90, 0),
      ![MIDDLE_FINGER_TIP] = Pt(cx + 10, cy + 150, 0),
      ![MIDDLE_FINGER_DIP] = Pt(cx, cy + 120, 0),
      ![MIDDLE_FINGER_PIP] = Pt(cx, cy + 90, 0),
      ![RING_FINGER_TIP]   = Pt(cx + 50, cy + 150, 0),
      ![RING_FINGER_DIP]   = Pt(cx + 50, cy + 120, 0),
      ![RING_FINGER_PIP]   = Pt(cx + 50, cy + 90, 0),
      ![PINKY_TIP]         = Pt(cx + 100, cy + 150, 0),
      ![PINKY_DIP]         = Pt(cx + 100, cy + 120, 0),
      ![PINKY_PIP]         = Pt(cx + 100, cy + 90, 0),
      ![THUMB_TIP]         = Pt(cx - 200, cy + 150, 0),
      ![THUMB_IP]          = Pt(cx - 180, cy + 130, 0),
      ![THUMB_MCP]         = Pt(cx - 150, cy + 110, 0) ]

createPinchLandmarks(cx, cy) ==
  LET base == createMockLandmarks(cx, cy)
  IN  [ base EXCEPT ![THUMB_TIP] = Pt(base[INDEX_FINGER_TIP].x + 20,
                                      base[INDEX_FINGER_TIP].y + 20, 0) ]

createPointingLandmarks(cx, cy) ==
  [ createClosedFistLandmarks(cx, cy) EXCEPT
      ![INDEX_FINGER_MCP] = Pt(cx - 75, cy + 100, 0),
      ![INDEX_FINGER_PIP] = Pt(cx - 75, cy, 0),
      ![INDEX_FINGER_DIP] = Pt(cx - 75, cy - 100, 0),
      ![INDEX_FINGER_TIP] = Pt(cx - 75, cy - 200, 0) ]

(***************************************************************************)
(* A hand of a frame is described by its id, its shape and its centre;     *)
(* HandDescs are the hands the frames of the model are made of.            *)
(***************************************************************************)
(* A hand seen edge on: the tip of the middle finger covers the wrist. *)
createFoldedLandmarks(cx, cy) ==
  [ createMockLandmarks(cx, cy) EXCEPT ![MIDDLE_FINGER_TIP] = Pt(cx, cy + 200, 0) ]

(* A landmark array that ends before the tip of the little finger. *)
createShortLandmarks(cx, cy) ==
  [ i \in 0..(PINKY_TIP - 1) |-> createMockLandmarks(cx, cy)[i] ]

(* The landmarks moved to the distance z from the camera plane. *)
AtDepth(landmarks, z) ==
  [ i \in DOMAIN landmarks |-> Pt(landmarks[i].x, landmarks[i].y, z) ]

(* The open hand with the index finger's PIP joint on its MCP joint and its *)
(* tip on its DIP joint.                                                    *)
createFusedLandmarks(cx, cy) ==
  [ createMockLandmarks(cx, cy) EXCEPT
      ![INDEX_FINGER_PIP] = createMockLandmarks(cx, cy)[INDEX_FINGER_MCP],
      ![INDEX_FINGER_TIP] = createMockLandmarks(cx, cy)[INDEX_FINGER_DIP] ]

Shapes ==
  {"open", "fist", "pinch", "point", "folded", "short", "near", "deep", "far", "fused"}

ShapeLandmarks(shape, cx, cy) ==
  CASE shape = "fist"  -> createClosedFistLandmarks(cx, cy)
    [] shape = "pinch" -> createPinchLandmarks(cx, cy)
    [] shape = "point" -> createPointingLandmarks(cx, cy)
    [] shape = "folded" -> createFoldedLandmarks(cx, cy)
    [] shape = "short" -> createShortLandmarks(cx, cy)
    [] shape = "near"  -> AtDepth(createMockLandmarks(cx, cy), -600)
    [] shape = "deep"  -> AtDepth(createClosedFistLandmarks(cx, cy), 200)
    [] shape = "far"   -> AtDepth(createClosedFistLandmarks(cx, cy), 700)
    [] shape = "fused" -> createFusedLandmarks(cx, cy)
    [] OTHER           -> createMockLandmarks(cx, cy)

HandDesc(id, shape, cx, cy) == [ id |-> id, shape |-> shape, cx |-> cx, cy |-> cy ]

HandDescs == [ id : {0, 1}, shape : Shapes, cx : {300, 302, 600, 700}, cy : {500} ]

LandmarksOf == [ h \in HandDescs |-> ShapeLandmarks(h.shape, h.cx, h.cy) ]

(* Every landmark of the enum is in the array. *)
Complete(landmarks) == Length(landmarks) > PINKY_TIP

AllLandmarks == { lm \in { LandmarksOf[h] : h \in HandDescs } : Complete(lm) }

(***************************************************************************)
(* Types of control.types.ts.                                              *)
(***************************************************************************)
NONE == "none"
OPEN_HAND == "open_hand"
CLOSED_FIST == "closed_fist"
POINTING == "pointing"
THUMBS_UP == "thumbs_up"
PEACE == "peace"
PINCH == "pinch"

GestureType == {NONE, OPEN_HAND, CLOSED_FIST, POINTING, THUMBS_UP, PEACE, PINCH}

createEmptyHandControlState(handId) ==
  [ handId |-> handId,
    isTracked |-> FALSE,
    position |-> [x |-> 0, y |-> 0],
    fingertipPosition |-> [x |-> 0, y |-> 0],
    velocity |-> [vx |-> 0, vy |-> 0, magnitude |-> 0],
    gesture |-> [type |-> NONE, confidence |-> 0, duration |-> 0],
    fingers |-> [thumb |-> FALSE, index |-> FALSE, middle |-> FALSE,
                 ring |-> FALSE, pinky |-> FALSE, extendedCount |-> 0],
    openness |-> [value |-> 0, derivative |-> 0],
    depth |-> 0,
    rotation |-> 0 ]

(* A JavaScript object used as a map: a function from its keys. *)
EmptyMap == [k \in {} |-> Null]

MapSet(m, key, value) ==
  [k \in DOMAIN m \cup {key} |-> IF k = key THEN value ELSE m[k]]

MapDelete(m, key) == [k \in DOMAIN m \ {key} |-> m[k]]

(* now is the value Date.now() returns at the call. *)
createEmptyControlState(now) ==
  [ timestamp |-> now,
    deltaTime |-> 0,
    hands |-> << >>,
    hasActiveHand |-> FALSE,
    primaryHand |-> Null,
    secondaryHand |-> Null,
    custom |-> EmptyMap ]

(***************************************************************************)
(* DEFAULT_CONTROLLER_CONFIG.  extensionAngleThreshold is held as          *)
(* 1000*cos(2.5) = -801: an angle exceeds the threshold iff its cosine is  *)
(* below the threshold's cosine.                                           *)
(***************************************************************************)
DEFAULT_CONTROLLER_CONFIG ==
  [ position |-> [ smoothingEnabled |-> TRUE,
                   smoothingFactor |-> 300,
                   trackingMode |-> "palm",
                   calculateVelocity |-> TRUE,
                   movementThreshold |-> 5 ],
    gesture  |-> [ smoothingEnabled |-> TRUE,
                   smoothingFactor |-> 200,
                   minConfidence |-> 700,
                   minDuration |-> 100,
                   pinchThreshold |-> 80,
                   extensionAngleThreshold |-> -801 ],
    distance |-> [ smoothingEnabled |-> TRUE,
                   smoothingFactor |-> 300,
                   normalizeToHandSize |-> TRUE ] ]

(***************************************************************************)
(* GestureController: the pure helpers.                                    *)
(***************************************************************************)
distance3D(a, b) ==
  LET dx == a.x - b.x
      dy == a.y - b.y
      dz == a.z - b.z
  IN  Sqrt(dx * dx + dy * dy + dz * dz)

distance2D(a, b) ==
  LET dx == a.x - b.x
      dy == a.y - b.y
  IN  Sqrt(dx * dx + dy * dy)

(* 1000*cos of the angle at b; the degenerate case returns angle 0. *)
(* calculateAngle that takes the degenerate case for a straight joint. *)
calculateAngle_straight(a, b, c) ==
  LET ba == Pt(a.x - b.x, a.y - b.y, a.z - b.z)
      bc == Pt(c.x - b.x, c.y - b.y, c.z - b.z)
      dotProduct == ba.x * bc.x + ba.y * bc.y + ba.z * bc.z
      magnitudeBA == Sqrt(ba.x * ba.x + ba.y * ba.y + ba.z * ba.z)
      magnitudeBC == Sqrt(bc.x * bc.x + bc.y * bc.y + bc.z * bc.z)
  IN  IF magnitudeBA = 0 \/ magnitudeBC = 0
      THEN -Unit
      ELSE Max(-Unit, Min(Unit, (dotProduct * Unit) \div (magnitudeBA * magnitudeBC)))

calculateAngle(a, b, c) ==
  LET ba == Pt(a.x - b.x, a.y - b.y, a.z - b.z)
      bc == Pt(c.x - b.x, c.y - b.y, c.z - b.z)
      dotProduct == ba.x * bc.x + ba.y * bc.y + ba.z * bc.z
      magnitudeBA == Sqrt(ba.x * ba.x + ba.y * ba.y + ba.z * ba.z)
      magnitudeBC == Sqrt(bc.x * bc.x + bc.y * bc.y + bc.z * bc.z)
  IN  IF magnitudeBA = 0 \/ magnitudeBC = 0
      THEN Unit
      ELSE Max(-Unit, Min(Unit, (dotProduct * Unit) \div (magnitudeBA * magnitudeBC)))

ThumbExtended(landmarks) ==
  LET tipToWrist == distance3D(landmarks[THUMB_TIP], landmarks[WRIST])
      ipToWrist  == distance3D(landmarks[THUMB_IP], landmarks[WRIST])
      mcpToWrist == distance3D(landmarks[THUMB_MCP], landmarks[WRIST])
  IN  tipToWrist > ipToWrist /\ tipToWrist * 10 > mcpToWrist * 12

(***************************************************************************)
(* The geometry of a landmark set does not depend on the configuration or  *)
(* on the history: it is computed once per landmark set of the model's     *)
(* frames and looked up afterwards.                                        *)
(***************************************************************************)
ThumbTable == [ lm \in AllLandmarks |-> ThumbExtended(lm) ]

isThumbExtended(landmarks) == ThumbTable[landmarks]

FingerMcps == {INDEX_FINGER_MCP, MIDDLE_FINGER_MCP, RING_FINGER_MCP, PINKY_MCP}

(* pipAngle and dipAngle of each finger. *)
JointAngleTable ==
  [ lm \in AllLandmarks |->
      [ mcp \in FingerMcps |->
          [ pipAngle |-> calculateAngle(lm[mcp], lm[mcp + 1], lm[mcp + 2]),
            dipAngle |-> calculateAngle(lm[mcp + 1], lm[mcp + 2], lm[mcp + 3]) ] ] ]

(* mcp is the index of the finger's MCP joint; PIP, DIP and TIP follow it. *)
isFingerExtended(landmarks, mcp, cfg) ==
  LET pipAngle == JointAngleTable[landmarks][mcp].pipAngle
      dipAngle == JointAngleTable[landmarks][mcp].dipAngle
  IN  pipAngle < cfg.extensionAngleThreshold /\ dipAngle < cfg.extensionAngleThreshold

(* detectFingerStates that leaves the thumb out of the count. *)
detectFingerStates_noThumb(landmarks, cfg) ==
  LET thumb  == isThumbExtended(landmarks)
      index  == isFingerExtended(landmarks, INDEX_FINGER_MCP, cfg)
      middle == isFingerExtended(landmarks, MIDDLE_FINGER_MCP, cfg)
      ring   == isFingerExtended(landmarks, RING_FINGER_MCP, cfg)
      pinky  == isFingerExtended(landmarks, PINKY_MCP, cfg)
      B(f)   == IF f THEN 1 ELSE 0
  IN  [ thumb |-> thumb, index |-> index, middle |-> middle, ring |-> ring,
        pinky |-> pinky,
        extendedCount |-> B(index) + B(middle) + B(ring) + B(pinky) ]

detectFingerStates(landmarks, cfg) ==
  LET thumb  == isThumbExtended(landmarks)
      index  == isFingerExtended(landmarks, INDEX_FINGER_MCP, cfg)
      middle == isFingerExtended(landmarks, MIDDLE_FINGER_MCP, cfg)
      ring   == isFingerExtended(landmarks, RING_FINGER_MCP, cfg)
      pinky  == isFingerExtended(landmarks, PINKY_MCP, cfg)
      B(f)   == IF f THEN 1 ELSE 0
  IN  [ thumb |-> thumb, index |-> index, middle |-> middle, ring |-> ring,
        pinky |-> pinky,
        extendedCount |-> B(thumb) + B(index) + B(middle) + B(ring) + B(pinky) ]

Openness(landmarks) ==
  LET wrist == landmarks[WRIST]
      total == distance3D(landmarks[THUMB_TIP], wrist)
               + distance3D(landmarks[INDEX_FINGER_TIP], wrist)
               + distance3D(landmarks[MIDDLE_FINGER_TIP], wrist)
               + distance3D(landmarks[RING_FINGER_TIP], wrist)
               + distance3D(landmarks[PINKY_TIP], wrist)
      avgDistance == total \div 5
      normalized == ((avgDistance - 100) * Unit) \div 350
  IN  Max(0, Min(Unit, normalized))

OpennessTable == [ lm \in AllLandmarks |-> Openness(lm) ]

calculateOpenness(landmarks) == OpennessTable[landmarks]

(* The 2D distance from the thumb tip to the index tip. *)
PinchTable ==
  [ lm \in AllLandmarks |-> distance2D(lm[THUMB_TIP], lm[INDEX_FINGER_TIP]) ]

isPinching(landmarks, cfg) ==
  PinchTable[landmarks] < cfg.pinchThreshold

(* detectGesture that looks for the closed fist before the pinch. *)
detectGesture_fistFirst(landmarks, fingers, openness, cfg) ==
  IF fingers.extendedCount = 0 /\ openness < 300 THEN CLOSED_FIST
  ELSE IF isPinching(landmarks, cfg) THEN PINCH
  ELSE IF fingers.thumb /\ ~fingers.index /\ ~fingers.middle /\ ~fingers.ring /\ ~fingers.pinky
       THEN THUMBS_UP
  ELSE IF ~fingers.thumb /\ fingers.index /\ ~fingers.middle /\ ~fingers.ring /\ ~fingers.pinky
       THEN POINTING
  ELSE IF ~fingers.thumb /\ fingers.index /\ fingers.middle /\ ~fingers.ring /\ ~fingers.pinky
       THEN PEACE
  ELSE IF fingers.extendedCount >= 4 /\ openness > 500 THEN OPEN_HAND
  ELSE NONE

detectGesture(landmarks, fingers, openness, cfg) ==
  IF isPinching(landmarks, cfg) THEN PINCH
  ELSE IF fingers.extendedCount = 0 /\ openness < 300 THEN CLOSED_FIST
  ELSE IF fingers.thumb /\ ~fingers.index /\ ~fingers.middle /\ ~fingers.ring /\ ~fingers.pinky
       THEN THUMBS_UP
  ELSE IF ~fingers.thumb /\ fingers.index /\ ~fingers.middle /\ ~fingers.ring /\ ~fingers.pinky
       THEN POINTING
  ELSE IF ~fingers.thumb /\ fingers.index /\ fingers.middle /\ ~fingers.ring /\ ~fingers.pinky
       THEN PEACE
  ELSE IF fingers.extendedCount >= 4 /\ openness > 500 THEN OPEN_HAND
  ELSE NONE

(* calculateGestureConfidence without Math.min. *)
calculateGestureConfidence_unbounded(gesture, fingers, openness) ==
  CASE gesture = CLOSED_FIST ->
         ((300 - openness) * Unit) \div 300 + ((5 - fingers.extendedCount) * Unit) \div 5
    [] gesture = OPEN_HAND ->
         (openness * Unit) \div 700 + (fingers.extendedCount * Unit) \div 5
    [] gesture \in {POINTING, THUMBS_UP, PEACE} ->
         IF fingers.extendedCount <= 2 THEN 900 ELSE 700
    [] gesture = PINCH -> 950
    [] OTHER -> 500

calculateGestureConfidence(gesture, fingers, openness) ==
  CASE gesture = CLOSED_FIST ->
         Min(Unit, ((300 - openness) * Unit) \div 300 + ((5 - fingers.extendedCount) * Unit) \div 5)
    [] gesture = OPEN_HAND ->
         Min(Unit, (openness * Unit) \div 700 + (fingers.extendedCount * Unit) \div 5)
    [] gesture \in {POINTING, THUMBS_UP, PEACE} ->
         IF fingers.extendedCount <= 2 THEN 900 ELSE 700
    [] gesture = PINCH -> 950
    [] OTHER -> 500

smoothValue(current, previous, cfg) ==
  LET alpha == Unit - cfg.smoothingFactor
  IN  (alpha * current + cfg.smoothingFactor * previous) \div Unit


(* ReportedType that reports the detected gesture at once. *)
ReportedType_atOnce(duration, detectedGesture, handState, cfg) == detectedGesture

(* ReportedType with the comparison made strict. *)
ReportedType_strict(duration, detectedGesture, handState, cfg) ==
  IF duration > cfg.minDuration THEN detectedGesture ELSE handState.gesture.type

(* The gesture type reported: the detected one once it has lasted          *)
(* minDuration, else the type the incoming hand state carries.             *)
ReportedType(duration, detectedGesture, handState, cfg) ==
  IF duration >= cfg.minDuration THEN detectedGesture ELSE handState.gesture.type

(* GestureDuration without the final overwrite: the value first built.     *)
GestureDuration_firstValue(timestamp, gestureStartTime, detectedGesture, handState) ==
  IF detectedGesture = handState.gesture.type
  THEN handState.gesture.duration + (timestamp - handState.gesture.duration)
  ELSE 0

(* gesture.duration: the value first built into the gesture state is       *)
(* overwritten by timestamp - gestureStartTime before it is returned.      *)
GestureDuration(timestamp, gestureStartTime, detectedGesture, handState) ==
  timestamp - gestureStartTime

(***************************************************************************)
(* GestureController.processHand.  history is the gestureHistory map       *)
(* before the call; the result carries the hand state returned and the map *)
(* after the call.                                                         *)
(***************************************************************************)
GestureHistoryOf(gestureHistory, id, timestamp, rawOpenness) ==
  IF id \in DOMAIN gestureHistory
  THEN gestureHistory[id]
  ELSE [ lastGesture |-> NONE,
         gestureStartTime |-> timestamp,
         smoothedOpenness |-> rawOpenness ]

(* GestureReport with the confidence of the type it reports. *)
GestureReport_ofReported(hand, timestamp, handState, gestureHistory, cfg, history, fingers, smoothedOpenness, detectedGesture) ==
  LET changed == detectedGesture # history.lastGesture
      gestureStartTime == IF changed THEN timestamp ELSE history.gestureStartTime
      duration == timestamp - gestureStartTime
  IN  [ hand |-> [ handState EXCEPT
                     !.gesture =
                       [ type |-> ReportedType(duration, detectedGesture, handState, cfg),
                         confidence |-> calculateGestureConfidence(
                                        ReportedType(duration, detectedGesture, handState, cfg),
                                        fingers, smoothedOpenness),
                         duration |-> GestureDuration(timestamp, gestureStartTime,
                                                      detectedGesture, handState) ],
                     !.fingers = fingers,
                     !.openness =
                       [ value |-> smoothedOpenness,
                         derivative |->
                           ((smoothedOpenness - history.smoothedOpenness) * Unit)
                             \div Max(1, timestamp - history.gestureStartTime) ] ],
        history |-> MapSet(gestureHistory, hand.id,
                           [ lastGesture |-> IF changed THEN detectedGesture
                                             ELSE history.lastGesture,
                             gestureStartTime |-> gestureStartTime,
                             smoothedOpenness |-> smoothedOpenness ]) ]

(* processHand from the timing of the detected gesture on. *)
GestureReport(hand, timestamp, handState, gestureHistory, cfg, history, fingers, smoothedOpenness, detectedGesture) ==
  LET changed == detectedGesture # history.lastGesture
      gestureStartTime == IF changed THEN timestamp ELSE history.gestureStartTime
      duration == timestamp - gestureStartTime
  IN  [ hand |-> [ handState EXCEPT
                     !.gesture =
                       [ type |-> ReportedType(duration, detectedGesture, handState, cfg),
                         confidence |-> calculateGestureConfidence(detectedGesture, fingers,
                                                                   smoothedOpenness),
                         duration |-> GestureDuration(timestamp, gestureStartTime,
                                                      detectedGesture, handState) ],
                     !.fingers = fingers,
                     !.openness =
                       [ value |-> smoothedOpenness,
                         derivative |->
                           ((smoothedOpenness - history.smoothedOpenness) * Unit)
                             \div Max(1, timestamp - history.gestureStartTime) ] ],
        history |-> MapSet(gestureHistory, hand.id,
                           [ lastGesture |-> IF changed THEN detectedGesture
                                             ELSE history.lastGesture,
                             gestureStartTime |-> gestureStartTime,
                             smoothedOpenness |-> smoothedOpenness ]) ]

(* processHand from the detection of the gesture on. *)
GestureDetect(hand, timestamp, handState, gestureHistory, cfg, history, fingers, smoothedOpenness) ==
  GestureReport(hand, timestamp, handState, gestureHistory, cfg, history, fingers,
                smoothedOpenness,
                detectGesture(hand.landmarks, fingers, smoothedOpenness, cfg))

(* processHand from the smoothing of the openness on. *)
GestureSmooth(hand, timestamp, handState, gestureHistory, cfg, fingers, rawOpenness, history) ==
  GestureDetect(hand, timestamp, handState, gestureHistory, cfg, history, fingers,
                IF cfg.smoothingEnabled
                THEN smoothValue(rawOpenness, history.smoothedOpenness, cfg)
                ELSE rawOpenness)

GestureProcessHand(hand, timestamp, handState, gestureHistory, cfg) ==
  GestureSmooth(hand, timestamp, handState, gestureHistory, cfg,
                detectFingerStates(hand.landmarks, cfg),
                calculateOpenness(hand.landmarks),
                GestureHistoryOf(gestureHistory, hand.id, timestamp,
                                 calculateOpenness(hand.landmarks)))

(* Array.find on the hand id: the index of the first match, 0 if none. *)
FindHand(hands, id) ==
  IF \E i \in 1..Len(hands) : hands[i].id = id
  THEN CHOOSE i \in 1..Len(hands) :
         hands[i].id = id /\ \A j \in 1..(i - 1) : hands[j].id # id
  ELSE 0

HandIds(frame) == { frame.hands[i].id : i \in 1..Len(frame.hands) }

(* PruneHistory that deletes nothing. *)
PruneHistory_keepsAll(historyMap, frame) == historyMap

(* Deletes the entries of the hands that are not in the frame. *)
PruneHistory(historyMap, frame) ==
  [ id \in DOMAIN historyMap \cap HandIds(frame) |-> historyMap[id] ]

(* state.hands.map(...) of GestureController.process, left to right. *)
RECURSIVE GestureMapHands(_, _, _, _, _, _)
(* GestureMapNext that puts the mapped hand in front. *)
GestureMapNext_reversed(frame, state, i, acc, cfg, r) ==
  GestureMapHands(frame, state, i + 1, << r.hand >> \o acc, r.history, cfg)

GestureMapNext(frame, state, i, acc, cfg, r) ==
  GestureMapHands(frame, state, i + 1, Append(acc, r.hand), r.history, cfg)

GestureMapHands(frame, state, i, acc, gestureHistory, cfg) ==
  IF i > Len(state.hands)
  THEN [ hands |-> acc, history |-> gestureHistory ]
  ELSE IF FindHand(frame.hands, state.hands[i].handId) = 0
  THEN GestureMapHands(frame, state, i + 1, Append(acc, state.hands[i]),
                       gestureHistory, cfg)
  ELSE GestureMapNext(frame, state, i, acc, cfg,
                      GestureProcessHand(
                        frame.hands[FindHand(frame.hands, state.hands[i].handId)],
                        frame.timestamp, state.hands[i], gestureHistory, cfg))

(* array[i] || null, i counted from 0. *)
AtOrNull(seq, i) == IF Len(seq) > i THEN Some(seq[i + 1]) ELSE Null

(* GestureResult that leaves primaryHand and secondaryHand as it got them. *)
GestureResult_stale(frame, state, r) ==
  [ state |-> [ state EXCEPT !.hands = r.hands ],
    history |-> PruneHistory(r.history, frame) ]

(* The state and the history process returns, given the mapped hands. *)
GestureResult(frame, state, r) ==
  [ state |-> [ state EXCEPT
                  !.hands = r.hands,
                  !.primaryHand = AtOrNull(r.hands, 0),
                  !.secondaryHand = AtOrNull(r.hands, 1) ],
    history |-> PruneHistory(r.history, frame) ]

GestureProcess(frame, state, gestureHistory, cfg) ==
  GestureResult(frame, state,
                GestureMapHands(frame, state, 1, << >>, gestureHistory, cfg))


(***************************************************************************)
(* PositionController.                                                     *)
(***************************************************************************)
getLandmarkPosition(landmarks, landmark) ==
  [ x |-> landmarks[landmark].x, y |-> landmarks[landmark].y ]

calculatePalmCenter(landmarks) ==
  LET palm == << landmarks[WRIST], landmarks[INDEX_FINGER_MCP],
                 landmarks[MIDDLE_FINGER_MCP], landmarks[RING_FINGER_MCP],
                 landmarks[PINKY_MCP] >>
      sumX == palm[1].x + palm[2].x + palm[3].x + palm[4].x + palm[5].x
      sumY == palm[1].y + palm[2].y + palm[3].y + palm[4].y + palm[5].y
  IN  [ x |-> sumX \div Len(palm), y |-> sumY \div Len(palm) ]

calculatePosition(landmarks, cfg) ==
  CASE cfg.trackingMode = "index_tip" -> getLandmarkPosition(landmarks, INDEX_FINGER_TIP)
    [] cfg.trackingMode = "wrist" -> getLandmarkPosition(landmarks, WRIST)
    [] OTHER -> calculatePalmCenter(landmarks)

(* smoothPosition with the weights the other way round. *)
smoothPosition_swapped(current, previous, cfg) ==
  LET alpha == Unit - cfg.smoothingFactor
  IN  [ x |-> (cfg.smoothingFactor * current.x + alpha * previous.x) \div Unit,
        y |-> (cfg.smoothingFactor * current.y + alpha * previous.y) \div Unit ]

smoothPosition(current, previous, cfg) ==
  LET alpha == Unit - cfg.smoothingFactor
  IN  [ x |-> (alpha * current.x + cfg.smoothingFactor * previous.x) \div Unit,
        y |-> (alpha * current.y + cfg.smoothingFactor * previous.y) \div Unit ]

(* applyThreshold that lets every movement through. *)
applyThreshold_open(current, previous, cfg) == current

applyThreshold(current, previous, cfg) ==
  LET dx == current.x - previous.x
      dy == current.y - previous.y
      distance == Sqrt(dx * dx + dy * dy)
  IN  IF distance < cfg.movementThreshold THEN previous ELSE current

ZeroVelocity == [ vx |-> 0, vy |-> 0, magnitude |-> 0 ]

(* calculateVelocity that takes previous.y for previous.x. *)
calculateVelocity_xyMixed(current, previous, currentTime, previousTime) ==
  IF previous = Null \/ currentTime = previousTime
  THEN [ vx |-> 0, vy |-> 0, magnitude |-> 0 ]
  ELSE IF currentTime - previousTime <= 0
  THEN [ vx |-> 0, vy |-> 0, magnitude |-> 0 ]
  ELSE LET dt == currentTime - previousTime
           vx == ((current.x - previous[1].y) * 1000) \div dt
           vy == ((current.y - previous[1].y) * 1000) \div dt
       IN  [ vx |-> vx, vy |-> vy, magnitude |-> Sqrt(vx * vx + vy * vy) ]

(* calculateVelocity without the test of dt <= 0. *)
calculateVelocity_backwards(current, previous, currentTime, previousTime) ==
  IF previous = Null \/ currentTime = previousTime
  THEN [ vx |-> 0, vy |-> 0, magnitude |-> 0 ]
  ELSE LET dt == currentTime - previousTime
           vx == ((current.x - previous[1].x) * 1000) \div dt
           vy == ((current.y - previous[1].y) * 1000) \div dt
       IN  [ vx |-> vx, vy |-> vy, magnitude |-> Sqrt(vx * vx + vy * vy) ]

(* previous is null or a position; times are in ms, velocity in units/s. *)
calculateVelocity(current, previous, currentTime, previousTime) ==
  IF previous = Null \/ currentTime = previousTime
  THEN ZeroVelocity
  ELSE IF currentTime - previousTime <= 0
  THEN ZeroVelocity
  ELSE LET dt == currentTime - previousTime
           vx == ((current.x - previous[1].x) * 1000) \div dt
           vy == ((current.y - previous[1].y) * 1000) \div dt
       IN  [ vx |-> vx, vy |-> vy, magnitude |-> Sqrt(vx * vx + vy * vy) ]

RECURSIVE SumZ(_, _)
SumZ(landmarks, i) ==
  IF i >= Length(landmarks) THEN 0 ELSE landmarks[i].z + SumZ(landmarks, i + 1)

(* calculateDepth with the sign of z turned. *)
calculateDepth_away(landmarks) ==
  LET avgZ == SumZ(landmarks, 0) \div Length(landmarks)
  IN  Max(0, Min(Unit, 500 + avgZ))

calculateDepth(landmarks) ==
  LET avgZ == SumZ(landmarks, 0) \div Length(landmarks)
  IN  Max(0, Min(Unit, 500 - avgZ))

(***************************************************************************)
(* Math.atan2 in milliradians: atan(t) for 0 <= t <= 1 is taken as         *)
(* t*(pi/4 + 0.273*(1 - t)), and the other octants by symmetry.            *)
(***************************************************************************)
Abs(a) == IF a < 0 THEN -a ELSE a

AtanUnit(t) == (785 * t + (273 * t * (Unit - t)) \div Unit) \div Unit

Atan2(dy, dx) ==
  LET ax == Abs(dx)
      ay == Abs(dy)
      first == IF ax = 0 /\ ay = 0 THEN 0
               ELSE IF ay <= ax THEN AtanUnit((ay * Unit) \div ax)
               ELSE 1571 - AtanUnit((ax * Unit) \div ay)
      upper == IF dx >= 0 THEN first ELSE 3142 - first
  IN  IF dy >= 0 THEN upper ELSE -upper

calculateRotation(landmarks) ==
  Atan2(landmarks[MIDDLE_FINGER_MCP].y - landmarks[WRIST].y,
        landmarks[MIDDLE_FINGER_MCP].x - landmarks[WRIST].x)

(* Array.find on handId over hand states: the index of the first match. *)
FindHandState(hands, id) ==
  IF \E i \in 1..Len(hands) : hands[i].handId = id
  THEN CHOOSE i \in 1..Len(hands) :
         hands[i].handId = id /\ \A j \in 1..(i - 1) : hands[j].handId # id
  ELSE 0

(***************************************************************************)
(* PositionController.processHand: the hand state returned and the         *)
(* handHistory map after the call.                                         *)
(***************************************************************************)
(* PositionHistoryOf whose new entry starts at the origin. *)
PositionHistoryOf_fromOrigin(handHistory, id, timestamp, rawPosition) ==
  IF id \in DOMAIN handHistory
  THEN handHistory[id]
  ELSE [ lastPosition |-> Null,
         lastTimestamp |-> timestamp,
         smoothedPosition |-> [ x |-> 0, y |-> 0 ] ]

PositionHistoryOf(handHistory, id, timestamp, rawPosition) ==
  IF id \in DOMAIN handHistory
  THEN handHistory[id]
  ELSE [ lastPosition |-> Null,
         lastTimestamp |-> timestamp,
         smoothedPosition |-> rawPosition ]

(* PositionReport that leaves the smoothing base of the history alone. *)
PositionReport_ownBase(hand, timestamp, handState, handHistory, cfg, history, position) ==
  [ hand |-> [ handState EXCEPT
                 !.isTracked = TRUE,
                 !.position = position,
                 !.fingertipPosition = getLandmarkPosition(hand.landmarks, INDEX_FINGER_TIP),
                 !.velocity = IF cfg.calculateVelocity
                              THEN calculateVelocity(position, history.lastPosition,
                                                     timestamp, history.lastTimestamp)
                              ELSE handState.velocity,
                 !.depth = calculateDepth(hand.landmarks),
                 !.rotation = calculateRotation(hand.landmarks) ],
    history |-> MapSet(handHistory, hand.id,
                       [ lastPosition |-> Some(position),
                         lastTimestamp |-> timestamp,
                         smoothedPosition |-> history.smoothedPosition ]) ]

(* processHand from the velocity on. *)
PositionReport(hand, timestamp, handState, handHistory, cfg, history, position) ==
  [ hand |-> [ handState EXCEPT
                 !.isTracked = TRUE,
                 !.position = position,
                 !.fingertipPosition = getLandmarkPosition(hand.landmarks, INDEX_FINGER_TIP),
                 !.velocity = IF cfg.calculateVelocity
                              THEN calculateVelocity(position, history.lastPosition,
                                                     timestamp, history.lastTimestamp)
                              ELSE handState.velocity,
                 !.depth = calculateDepth(hand.landmarks),
                 !.rotation = calculateRotation(hand.landmarks) ],
    history |-> MapSet(handHistory, hand.id,
                       [ lastPosition |-> Some(position),
                         lastTimestamp |-> timestamp,
                         smoothedPosition |-> position ]) ]

(* processHand from the smoothing of the position on. *)
PositionSmooth(hand, timestamp, handState, handHistory, cfg, rawPosition, history) ==
  PositionReport(hand, timestamp, handState, handHistory, cfg, history,
                 applyThreshold(IF cfg.smoothingEnabled
                                THEN smoothPosition(rawPosition, history.smoothedPosition, cfg)
                                ELSE rawPosition,
                                history.smoothedPosition, cfg))

PositionProcessHand(hand, timestamp, state, handHistory, cfg) ==
  PositionSmooth(hand, timestamp,
                 IF FindHandState(state.hands, hand.id) # 0
                 THEN state.hands[FindHandState(state.hands, hand.id)]
                 ELSE createEmptyHandControlState(hand.id),
                 handHistory, cfg,
                 calculatePosition(hand.landmarks, cfg),
                 PositionHistoryOf(handHistory, hand.id, timestamp,
                                   calculatePosition(hand.landmarks, cfg)))

(* frame.hands.map(...) of PositionController.process, left to right. *)
RECURSIVE PositionMapHands(_, _, _, _, _, _)
PositionMapNext(frame, state, i, acc, cfg, r) ==
  PositionMapHands(frame, state, i + 1, Append(acc, r.hand), r.history, cfg)

PositionMapHands(frame, state, i, acc, handHistory, cfg) ==
  IF i > Len(frame.hands)
  THEN [ hands |-> acc, history |-> handHistory ]
  ELSE PositionMapNext(frame, state, i, acc, cfg,
                       PositionProcessHand(frame.hands[i], frame.timestamp, state,
                                           handHistory, cfg))

(* The state and the history process returns, given the mapped hands. *)
PositionResult(frame, state, r) ==
  [ state |-> [ state EXCEPT
                  !.hands = r.hands,
                  !.hasActiveHand = Len(r.hands) > 0,
                  !.primaryHand = AtOrNull(r.hands, 0),
                  !.secondaryHand = AtOrNull(r.hands, 1) ],
    history |-> PruneHistory(r.history, frame) ]

PositionProcess(frame, state, handHistory, cfg) ==
  PositionResult(frame, state,
                 PositionMapHands(frame, state, 1, << >>, handHistory, cfg))


(***************************************************************************)
(* DistanceController.  A normalised distance is 1000 * distance/handSize. *)
(***************************************************************************)
(* Normalize that gives 0 where there is no hand size to divide by. *)
Normalize_zero(distance, handSize, cfg) ==
  IF cfg.normalizeToHandSize
  THEN IF handSize > 0 THEN (distance * Unit) \div handSize ELSE 0
  ELSE distance

Normalize(distance, handSize, cfg) ==
  IF cfg.normalizeToHandSize /\ handSize > 0
  THEN (distance * Unit) \div handSize
  ELSE distance

calculatePinchDistance(landmarks, handSize, cfg) ==
  Normalize(PinchTable[landmarks], handSize, cfg)

DistancePalmCenter(landmarks) ==
  LET palm == << landmarks[WRIST], landmarks[INDEX_FINGER_MCP],
                 landmarks[MIDDLE_FINGER_MCP], landmarks[RING_FINGER_MCP],
                 landmarks[PINKY_MCP] >>
  IN  Pt((palm[1].x + palm[2].x + palm[3].x + palm[4].x + palm[5].x) \div Len(palm),
         (palm[1].y + palm[2].y + palm[3].y + palm[4].y + palm[5].y) \div Len(palm),
         (palm[1].z + palm[2].z + palm[3].z + palm[4].z + palm[5].z) \div Len(palm))

calculatePalmToPalmDistance(landmarks1, landmarks2, handSize, cfg) ==
  Normalize(distance2D(DistancePalmCenter(landmarks1), DistancePalmCenter(landmarks2)),
            handSize, cfg)

calculateLandmarkDistance(a, b, handSize, cfg) ==
  Normalize(distance2D(a, b), handSize, cfg)

RECURSIVE SumHandSizes(_, _)
SumHandSizes(hands, i) ==
  IF i > Len(hands) THEN 0
  ELSE distance2D(hands[i].landmarks[WRIST], hands[i].landmarks[MIDDLE_FINGER_TIP])
       + SumHandSizes(hands, i + 1)

calculateAverageHandSize(hands) ==
  IF Len(hands) = 0 THEN 300 ELSE SumHandSizes(hands, 1) \div Len(hands)

(* calculateMeasurements, given the average hand size. *)
MeasurementsOf(hands, avgHandSize, cfg) ==
  [ palmToPalm |->
      IF Len(hands) >= 2
      THEN Some(calculatePalmToPalmDistance(hands[1].landmarks, hands[2].landmarks,
                                            avgHandSize, cfg))
      ELSE Null,
    indexToIndex |->
      IF Len(hands) >= 2
      THEN Some(calculateLandmarkDistance(hands[1].landmarks[INDEX_FINGER_TIP],
                                          hands[2].landmarks[INDEX_FINGER_TIP],
                                          avgHandSize, cfg))
      ELSE Null,
    thumbToThumb |->
      IF Len(hands) >= 2
      THEN Some(calculateLandmarkDistance(hands[1].landmarks[THUMB_TIP],
                                          hands[2].landmarks[THUMB_TIP],
                                          avgHandSize, cfg))
      ELSE Null,
    primaryPinch |->
      IF Len(hands) >= 1
      THEN Some(calculatePinchDistance(hands[1].landmarks, avgHandSize, cfg))
      ELSE Null,
    secondaryPinch |->
      IF Len(hands) >= 2
      THEN Some(calculatePinchDistance(hands[2].landmarks, avgHandSize, cfg))
      ELSE Null,
    avgHandSize |-> avgHandSize ]

calculateMeasurements(frame, cfg) ==
  MeasurementsOf(frame.hands, calculateAverageHandSize(frame.hands), cfg)

(* smooth that takes a missing previous value for 0. *)
smooth_fromZero(curr, prev, cfg) ==
  IF curr = Null THEN Null
  ELSE IF prev = Null THEN Some(((Unit - cfg.smoothingFactor) * curr[1]) \div Unit)
  ELSE Some(((Unit - cfg.smoothingFactor) * curr[1] + cfg.smoothingFactor * prev[1])
            \div Unit)

(* smooth that keeps the previous value where there is no current one. *)
smooth_stale(curr, prev, cfg) ==
  IF curr = Null THEN prev
  ELSE IF prev = Null THEN curr
  ELSE Some(((Unit - cfg.smoothingFactor) * curr[1] + cfg.smoothingFactor * prev[1])
            \div Unit)

(* The inner function smooth of smoothMeasurements, on nullable numbers. *)
smooth(curr, prev, cfg) ==
  IF curr = Null THEN Null
  ELSE IF prev = Null THEN curr
  ELSE Some(((Unit - cfg.smoothingFactor) * curr[1] + cfg.smoothingFactor * prev[1])
            \div Unit)

(* smoothMeasurements that returns the current measurements as they are. *)
smoothMeasurements_asIs(current, previous, cfg) == current

smoothMeasurements(current, previous, cfg) ==
  [ palmToPalm |-> smooth(current.palmToPalm, previous.palmToPalm, cfg),
    indexToIndex |-> smooth(current.indexToIndex, previous.indexToIndex, cfg),
    thumbToThumb |-> smooth(current.thumbToThumb, previous.thumbToThumb, cfg),
    primaryPinch |-> smooth(current.primaryPinch, previous.primaryPinch, cfg),
    secondaryPinch |-> smooth(current.secondaryPinch, previous.secondaryPinch, cfg),
    avgHandSize |-> ((Unit - cfg.smoothingFactor) * current.avgHandSize
                     + cfg.smoothingFactor * previous.avgHandSize) \div Unit ]

EmptyDistanceHistory == [ lastMeasurements |-> Null, smoothedMeasurements |-> Null ]

(* DistanceResult that builds the auxiliary map anew. *)
DistanceResult_newCustom(state, measurements, smoothedMeasurements) ==
  [ state |-> [ state EXCEPT
                  !.custom = MapSet(EmptyMap, "distances", smoothedMeasurements) ],
    history |-> [ lastMeasurements |-> Some(measurements),
                  smoothedMeasurements |-> Some(smoothedMeasurements) ] ]

(* The state and the history process returns, given the measurements. *)
DistanceResult(state, measurements, smoothedMeasurements) ==
  [ state |-> [ state EXCEPT
                  !.custom = MapSet(state.custom, "distances", smoothedMeasurements) ],
    history |-> [ lastMeasurements |-> Some(measurements),
                  smoothedMeasurements |-> Some(smoothedMeasurements) ] ]

(* process from the smoothing of the measurements on. *)
DistanceSmooth(state, history, cfg, measurements) ==
  DistanceResult(state, measurements,
                 IF cfg.smoothingEnabled /\ history.smoothedMeasurements # Null
                 THEN smoothMeasurements(measurements, history.smoothedMeasurements[1], cfg)
                 ELSE measurements)

DistanceProcess(frame, state, history, cfg) ==
  DistanceSmooth(state, history, cfg, calculateMeasurements(frame, cfg))


(***************************************************************************)
(* Configuration merging.  A partial configuration is a record with the    *)
(* supplied keys only; a missing section of a PartialControllerConfig is   *)
(* null.                                                                   *)
(***************************************************************************)
(* { ...override, ...base } *)
Spread_baseWins(base, override) ==
  [ k \in DOMAIN base \cup DOMAIN override |->
      IF k \in DOMAIN base THEN base[k] ELSE override[k] ]

(* { ...base, ...override } *)
Spread(base, override) ==
  [ k \in DOMAIN base \cup DOMAIN override |->
      IF k \in DOMAIN override THEN override[k] ELSE base[k] ]

(* { ...base, ...section } where section may be undefined *)
SpreadOptional(base, section) ==
  IF section = Null THEN base ELSE Spread(base, section[1])

mergeConfig(base, override) ==
  IF override = Null
  THEN base
  ELSE [ position |-> SpreadOptional(base.position, override[1].position),
         gesture  |-> SpreadOptional(base.gesture, override[1].gesture),
         distance |-> SpreadOptional(base.distance, override[1].distance) ]

(***************************************************************************)
(* Bounds and inputs of the model.                                         *)
(***************************************************************************)
MaxFrames == 2      \* frames processed in a run of Spec
MaxResets == 1      \* calls of reset() in a run
MaxTicks == 3       \* frames processed in a run of SpecGesture

Sources == {"A", "B"}
Subscribers == {"s1"}
NoSource == "none"

(* Values Date.now() may return. *)
NowValues == {7, 900}

Timestamps == {0, 100, 150}

HandSeqs ==
  { << HandDesc(0, "open", 300, 500) >>,
    << HandDesc(0, "fist", 600, 500) >> }

FrameDescs == [ hands : HandSeqs, timestamp : Timestamps ]

GestureHandSeqs ==
  { << >>,
    << HandDesc(0, "open", 300, 500) >>,
    << HandDesc(0, "fist", 300, 500) >> }

GestureFrameDescs == [ hands : GestureHandSeqs, timestamp : Timestamps ]

MaxHandTicks == 3   \* frames processed in a run of SpecHands

HandsSeqs ==
  { << >>,
    << HandDesc(0, "open", 300, 500) >>,
    << HandDesc(1, "point", 600, 500) >>,
    << HandDesc(0, "folded", 300, 500) >>,
    << HandDesc(1, "fist", 700, 500), HandDesc(0, "open", 300, 500) >> }

HandsFrameDescs == [ hands : HandsSeqs, timestamp : {100, 150} ]

(* Distance smoothing off; distances left as measured. *)
DistancePartials ==
  { [ position |-> Null, gesture |-> Null, distance |-> Some([ smoothingEnabled |-> FALSE ]) ],
    [ position |-> Null, gesture |-> Null, distance |-> Some([ normalizeToHandSize |-> FALSE ]) ] }

MaxPositionTicks == 3   \* frames processed in a run of SpecPosition

(* One hand that stays, trembles, moves or is out of sight. *)
PositionSeqs ==
  { << >>,
    << HandDesc(0, "open", 300, 500) >>,
    << HandDesc(0, "open", 302, 500) >>,
    << HandDesc(0, "open", 600, 500) >> }

PositionFrameDescs == [ hands : PositionSeqs, timestamp : {100, 150, 200} ]

PositionOnly(section) == [ position |-> Some(section), gesture |-> Null, distance |-> Null ]

PositionPartials ==
  { PositionOnly([ smoothingFactor |-> 1000, movementThreshold |-> 0 ]),
    PositionOnly([ smoothingFactor |-> 0, movementThreshold |-> 0 ]),
    PositionOnly([ smoothingEnabled |-> FALSE ]),
    PositionOnly([ movementThreshold |-> 400 ]) }

MaxShortTicks == 3   \* frames delivered in a run of SpecShort

(* Frames with all landmarks, and frames with a hand cut short. *)
WholeSeqs ==
  { << HandDesc(0, "open", 300, 500) >>,
    << HandDesc(0, "open", 300, 500), HandDesc(1, "fist", 600, 500) >>,
    << HandDesc(0, "near", 300, 500), HandDesc(1, "deep", 600, 500) >>,
    << HandDesc(0, "far", 300, 500) >>,
    << HandDesc(0, "fused", 300, 500) >> }

ShortSeqs ==
  { << HandDesc(0, "short", 300, 500) >>,
    << HandDesc(0, "open", 300, 500), HandDesc(1, "short", 600, 500) >> }

NoFrame == [ hands |-> << >>, timestamp |-> 0 ]

(* The HandFrame a description stands for. *)
FrameOf(desc) ==
  [ hands |-> [ i \in 1..Len(desc.hands) |->
                  [ id |-> desc.hands[i].id,
                    landmarks |-> LandmarksOf[desc.hands[i]] ] ],
    timestamp |-> desc.timestamp ]

InstantGestures ==
  [ position |-> Null, gesture |-> Some([ minDuration |-> 0 ]), distance |-> Null ]

PartialConfigs == { InstantGestures }

(* A partial configuration of two stages, more than one key in one. *)
TwoStages ==
  [ position |-> Some([ smoothingEnabled |-> FALSE, movementThreshold |-> 400 ]),
    gesture |-> Null,
    distance |-> Some([ smoothingFactor |-> 500 ]) ]

GesturePartials == { InstantGestures, TwoStages }

(***************************************************************************)
(* State of a ControllerManager and of its environment.                    *)
(***************************************************************************)
VARIABLES
  subscription,     \* this.subscription: NoSource (null) or the source it is on
  attached,         \* the sources on which a subscription of the manager is live
  replaced,         \* the source the last start() found the manager on, if any
  stateValue,       \* the value held by stateSubject
  observers,        \* the subscribers of state$
  received,         \* per subscriber: how many values it was handed, and the last
  lastTimestamp,    \* this.lastTimestamp
  config,           \* this._config of the manager
  stageConfig,      \* the _config of each controller
  handHistory,      \* PositionController.handHistory
  gestureHistory,   \* GestureController.gestureHistory
  distanceHistory,  \* DistanceController.history
  frameCount,       \* number of frames that reached processFrame
  resetCount,       \* number of calls of reset()
  sinceReset,       \* number of frames processed since construction or reset
  prevTick,         \* timestamp of the last frame processed since construction or
                    \* reset, null if there is none
  monotone,         \* no processed frame so far was older than the one before it
  watch,            \* per hand of the last tick: its raw classification, the tick
                    \* that classification first appeared on, the gestures reported
  everSeen,         \* the hand ids of the frames processed since construction or
                    \* reset
  returned,         \* the hand ids of the last tick that had been seen, but not on
                    \* the tick before
  prevFrame,        \* the last frame processed since construction or reset, null
                    \* if there is none
  probe,            \* a call of a function on its own: its arguments and result
  tracker,          \* a HandTracker, the animation frames and the promises it waits for
  smoother,         \* a LandmarkSmoother: the tracker's, or one used on its own
  op                \* the operation that led to this state

vars == << subscription, attached, replaced, stateValue, observers, received, lastTimestamp,
           config, stageConfig, handHistory, gestureHistory, distanceHistory,
           frameCount, resetCount, sinceReset, prevTick, monotone, watch, everSeen,
           returned, prevFrame, probe, tracker, smoother, op >>

(* A HandTracker after construction: no frame requested, nothing awaited. *)
(* observers are the subscribers of hands$ that are still subscribed,     *)
(* received what each subscriber was handed.                               *)
TrackerSubscribers == {"t1", "t2"}

NewTracker ==
  [ initialized |-> FALSE, isTracking |-> FALSE, hands |-> FALSE, videoElement |-> FALSE,
    animationFrameId |-> Null, lastTimestamp |-> 0, completed |-> FALSE,
    observers |-> {},
    received |-> [ s \in TrackerSubscribers |->
                     [ subscribed |-> FALSE, frames |-> 0, completed |-> FALSE ] ],
    disposed |-> FALSE, results |-> 0,
    loading |-> 0, sending |-> 0, scheduled |-> {}, requests |-> 0, now |-> 0 ]

LANDMARKS_PER_HAND == 21

DEFAULT_HAND_TRACKER_CONFIG == [ targetFps |-> 30, smoothing |-> TRUE, smoothingFactor |-> 300 ]

(***************************************************************************)
(* LandmarkSmoother (utils/smoothing): buffer maps the key of a hand and a *)
(* landmark index to the smoothed points kept for it, oldest first.        *)
(***************************************************************************)
smoothPoint(current, previous, factor) ==
  Pt(previous.x + ((current.x - previous.x) * factor) \div Unit,
     previous.y + ((current.y - previous.y) * factor) \div Unit,
     previous.z + ((current.z - previous.z) * factor) \div Unit)

LandmarkSmoother(factor, bufferSize) ==
  [ factor |-> Max(0, Min(Unit, factor)), bufferSize |-> bufferSize, buffer |-> EmptyMap,
    samples |-> 0 ]

SmootherKey(handId, landmarkIndex) == handId * LANDMARKS_PER_HAND + landmarkIndex

(* samples counts the calls made to a smoother used on its own. *)
Sampled(sm) == [ sm EXCEPT !.samples = @ + 1 ]

(* No history for the key, or an empty one. *)
NoHistory(sm, key) == key \notin DOMAIN sm.buffer \/ Len(sm.buffer[key]) = 0

(* history.push(smoothed) and the shift that follows it. *)
PushShift(history, smoothed, bufferSize) ==
  IF Len(history) + 1 > bufferSize THEN Tail(Append(history, smoothed))
  ELSE Append(history, smoothed)

(* The point smoothLandmark returns. *)
smoothLandmark(sm, handId, landmarkIndex, current) ==
  IF NoHistory(sm, SmootherKey(handId, landmarkIndex)) THEN current
  ELSE smoothPoint(current,
                   sm.buffer[SmootherKey(handId, landmarkIndex)]
                            [Len(sm.buffer[SmootherKey(handId, landmarkIndex)])],
                   sm.factor)

(* The history smoothLandmark leaves for the key. *)
HistoryAfter(sm, handId, landmarkIndex, current) ==
  IF NoHistory(sm, SmootherKey(handId, landmarkIndex)) THEN << current >>
  ELSE PushShift(sm.buffer[SmootherKey(handId, landmarkIndex)],
                 smoothLandmark(sm, handId, landmarkIndex, current), sm.bufferSize)

(* The smoother after smoothLandmark. *)
SmootherAfterLandmark(sm, handId, landmarkIndex, current) ==
  [ sm EXCEPT !.buffer = MapSet(sm.buffer, SmootherKey(handId, landmarkIndex),
                                HistoryAfter(sm, handId, landmarkIndex, current)) ]

(* smoothLandmarks: the loop calls smoothLandmark once for each index, and *)
(* the calls of one loop work on different keys.                           *)
smoothLandmarks(sm, handId, landmarks) ==
  [ i \in 0..(LANDMARKS_PER_HAND - 1) |-> smoothLandmark(sm, handId, i, landmarks[i]) ]

HandKeys(handId) == { SmootherKey(handId, i) : i \in 0..(LANDMARKS_PER_HAND - 1) }

(* The smoother after smoothLandmarks. *)
SmootherAfterLandmarks(sm, handId, landmarks) ==
  [ sm EXCEPT !.buffer =
      [ key \in DOMAIN sm.buffer \cup HandKeys(handId) |->
          IF key \in HandKeys(handId)
            THEN HistoryAfter(sm, handId, key - handId * LANDMARKS_PER_HAND,
                              landmarks[key - handId * LANDMARKS_PER_HAND])
            ELSE sm.buffer[key] ] ]

clearHand(sm, handId) ==
  [ sm EXCEPT !.buffer = [ key \in DOMAIN sm.buffer \ HandKeys(handId) |-> sm.buffer[key] ] ]

clear(sm) == [ sm EXCEPT !.buffer = EmptyMap ]

(* The smoother the constructor of HandTracker makes. *)
TrackerSmoother == LandmarkSmoother(DEFAULT_HAND_TRACKER_CONFIG.smoothingFactor, 5)

(* No function is called on its own. *)
NoProbe == [ function |-> "none" ]

(* frame is the frame of a processed delivery, NoFrame otherwise. *)
Op(kind, source, frame, processed) ==
  [ kind |-> kind, source |-> source, frame |-> frame, processed |-> processed ]

(* The manager after construction. *)
InitManager ==
  /\ subscription = NoSource
  /\ attached = {}
  /\ replaced = NoSource
  /\ \E now \in NowValues : stateValue = createEmptyControlState(now)
  /\ observers = {}
  /\ received = [ s \in Subscribers |-> [ count |-> 0, last |-> Null ] ]
  /\ lastTimestamp = 0
  /\ config = mergeConfig(DEFAULT_CONTROLLER_CONFIG, Null)
  /\ stageConfig = DEFAULT_CONTROLLER_CONFIG
  /\ handHistory = EmptyMap
  /\ gestureHistory = EmptyMap
  /\ distanceHistory = EmptyDistanceHistory
  /\ frameCount = 0
  /\ resetCount = 0
  /\ sinceReset = 0
  /\ prevTick = Null
  /\ monotone = TRUE
  /\ watch = EmptyMap
  /\ everSeen = {}
  /\ returned = {}
  /\ prevFrame = Null
  /\ tracker = NewTracker
  /\ op = Op("init", NoSource, NoFrame, FALSE)

Init ==
  /\ InitManager
  /\ probe = NoProbe
  /\ smoother = TrackerSmoother

getCurrentState == stateValue

(* A subscriber is handed a value. *)
Hand(inbox, value) == [ count |-> inbox.count + 1, last |-> Some(value) ]

(* The observers a value passed to stateSubject.next is handed to. *)
NextTargets(obs) == obs

(* BehaviorSubject.next: store the value, hand it to every observer. *)
SubjectNext(value) ==
  /\ stateValue' = value
  /\ received' = [ s \in Subscribers |->
                     IF s \in NextTargets(observers)
                     THEN Hand(received[s], value)
                     ELSE received[s] ]

(* OnSubscribe of a plain Subject: nothing is replayed. *)
OnSubscribe_nothing(value) == Null

(* What a new subscriber of state$ is handed at once: a BehaviorSubject    *)
(* replays its current value.                                              *)
OnSubscribe(value) == Some(value)

Subscribe(s) ==
  /\ s \notin observers
  /\ observers' = observers \cup {s}
  /\ received' = [ received EXCEPT
                     ![s] = IF OnSubscribe(stateValue) = Null
                            THEN @
                            ELSE Hand(@, OnSubscribe(stateValue)[1]) ]
  /\ op' = Op("subscribe", NoSource, NoFrame, FALSE)
  /\ UNCHANGED << subscription, attached, replaced, stateValue, lastTimestamp, config,
                  stageConfig, handHistory, gestureHistory, distanceHistory, frameCount, resetCount,
                  sinceReset, prevTick, monotone, watch, everSeen, returned, prevFrame,
                  probe, tracker, smoother >>

(* StopEffect that forgets the handle without unsubscribing. *)
StopEffect_leak(sub, att) == [ subscription |-> NoSource, attached |-> att ]

(* The effect of stop() on the subscription. *)
StopEffect(sub, att) ==
  IF sub # NoSource
  THEN [ subscription |-> NoSource, attached |-> att \ {sub} ]
  ELSE [ subscription |-> sub, attached |-> att ]

Stop ==
  /\ LET r == StopEffect(subscription, attached)
     IN  /\ subscription' = r.subscription
         /\ attached' = r.attached
  /\ replaced' = NoSource
  /\ op' = Op("stop", NoSource, NoFrame, FALSE)
  /\ UNCHANGED << stateValue, observers, received, lastTimestamp, config, stageConfig,
                  handHistory, gestureHistory, distanceHistory, frameCount, resetCount,
                  sinceReset, prevTick, monotone, watch, everSeen, returned, prevFrame,
                  probe, tracker, smoother >>

(* StartEffect without the call of stop(). *)
StartEffect_noStop(source, sub, att) ==
  [ subscription |-> source, attached |-> att \cup {source} ]

(* The effect of start(source) on the subscription: stop(), then subscribe. *)
StartEffect(source, sub, att) ==
  LET r == StopEffect(sub, att)
  IN  [ subscription |-> source, attached |-> r.attached \cup {source} ]

Start(source) ==
  /\ LET r == StartEffect(source, subscription, attached)
     IN  /\ subscription' = r.subscription
         /\ attached' = r.attached
  /\ replaced' = subscription
  /\ op' = Op("start", source, NoFrame, FALSE)
  /\ UNCHANGED << stateValue, observers, received, lastTimestamp, config, stageConfig,
                  handHistory, gestureHistory, distanceHistory, frameCount, resetCount,
                  sinceReset, prevTick, monotone, watch, everSeen, returned, prevFrame,
                  probe, tracker, smoother >>

(***************************************************************************)
(* ControllerManager.processFrame: the state returned, lastTimestamp and   *)
(* the three histories after the call.  The timestamp Date.now() gives the *)
(* fresh state is overwritten at once, so it is not an input.              *)
(***************************************************************************)
(* What processFrame leaves behind, given the results of the three stages. *)
FrameResult(frame, p, g, d) ==
  [ state |-> d.state,
    lastTimestamp |-> frame.timestamp,
    handHistory |-> p.history,
    gestureHistory |-> g.history,
    distanceHistory |-> d.history ]

(* The loop over the controllers, from the DistanceController on. *)
RunDistance(frame, cfg, distHist, p, g) ==
  FrameResult(frame, p, g, DistanceProcess(frame, g.state, distHist, cfg.distance))

(* The loop over the controllers, from the GestureController on. *)
RunGesture(frame, cfg, gestHist, distHist, p) ==
  RunDistance(frame, cfg, distHist, p,
              GestureProcess(frame, p.state, gestHist, cfg.gesture))

processFrame(frame, last, cfg, posHist, gestHist, distHist) ==
  RunGesture(frame, cfg, gestHist, distHist,
             PositionProcess(frame,
                             [ createEmptyControlState(0) EXCEPT
                                 !.timestamp = frame.timestamp,
                                 !.deltaTime = IF last > 0 THEN frame.timestamp - last
                                               ELSE 0 ],
                             posHist, cfg.position))

(***************************************************************************)
(* What an observer of the pipeline notes on a tick, per hand of the       *)
(* frame: the raw classification of the tick, the timestamp of the tick on *)
(* which the present unbroken run of that classification began, whether    *)
(* the classification differs from the one of the hand's previous tick,    *)
(* the gesture reported on the hand's previous tick (null on a first tick) *)
(* and the gesture reported now.                                           *)
(***************************************************************************)
ObserveHand(id, frame, out, old, raw) ==
  [ raw |-> raw,
    changed |-> id \in DOMAIN old /\ old[id].raw # raw,
    since |-> IF id \in DOMAIN old /\ old[id].raw = raw
              THEN old[id].since ELSE frame.timestamp,
    before |-> IF id \in DOMAIN old THEN Some(old[id].reported) ELSE Null,
    reported |-> out.gesture.type ]

Observe(frame, state, cfg, old) ==
  [ id \in HandIds(frame) |->
      ObserveHand(id, frame, state.hands[FindHandState(state.hands, id)], old,
                  detectGesture(frame.hands[FindHand(frame.hands, id)].landmarks,
                                state.hands[FindHandState(state.hands, id)].fingers,
                                state.hands[FindHandState(state.hands, id)].openness.value,
                                cfg)) ]

(***************************************************************************)
(* A source delivers a frame.  The frame is processed, and the result      *)
(* published, iff a subscription of the manager is live on that source.    *)
(* A frame that does not reach the manager leaves no trace of what it      *)
(* held.                                                                   *)
(***************************************************************************)
Deliver(source, desc) ==
  IF source \in attached
  THEN /\ \E r \in { processFrame(FrameOf(desc), lastTimestamp, stageConfig,
                                   handHistory, gestureHistory, distanceHistory) } :
            /\ SubjectNext(r.state)
            /\ lastTimestamp' = r.lastTimestamp
            /\ handHistory' = r.handHistory
            /\ gestureHistory' = r.gestureHistory
            /\ distanceHistory' = r.distanceHistory
            /\ watch' = Observe(FrameOf(desc), r.state, stageConfig.gesture, watch)
       /\ frameCount' = frameCount + 1
       /\ sinceReset' = sinceReset + 1
       /\ prevTick' = Some(desc.timestamp)
       /\ monotone' = (monotone /\ (prevTick = Null \/ prevTick[1] <= desc.timestamp))
       /\ everSeen' = everSeen \cup HandIds(FrameOf(desc))
       /\ prevFrame' = Some(desc)
       /\ returned' = (HandIds(FrameOf(desc)) \cap everSeen) \ DOMAIN watch
       /\ op' = Op("frame", source, desc, TRUE)
       /\ UNCHANGED << subscription, attached, replaced, observers, config, stageConfig,
                       resetCount, probe, tracker, smoother >>
  ELSE /\ op' = Op("frame", source, NoFrame, FALSE)
       /\ UNCHANGED << subscription, attached, replaced, stateValue, observers, received,
                       lastTimestamp, config, stageConfig, handHistory, gestureHistory,
                       distanceHistory, frameCount, resetCount, sinceReset, prevTick,
                       monotone, watch, everSeen, returned, prevFrame,
                  probe, tracker, smoother >>

(***************************************************************************)
(* A source delivers a frame with a hand whose landmark array ends before  *)
(* PINKY_TIP to a live subscription of the manager.  processFrame sets     *)
(* lastTimestamp; the PositionController reads no landmark behind          *)
(* PINKY_MCP and returns; the GestureController maps the hands in order    *)
(* and throws a TypeError in calculateAngle on the undefined tip, before   *)
(* it prunes its history.  The map operator of the pipe passes the error   *)
(* on: nothing is published and the subscription is closed, while          *)
(* this.subscription goes on referring to it.                              *)
(***************************************************************************)
FirstIncomplete(frame) ==
  CHOOSE i \in 1..Len(frame.hands) :
    /\ ~Complete(frame.hands[i].landmarks)
    /\ \A j \in 1..(i - 1) : Complete(frame.hands[j].landmarks)

(* What processFrame leaves behind when the GestureController throws. *)
ThrownResult(frame, gestHist, cfg, p) ==
  [ lastTimestamp |-> frame.timestamp,
    handHistory |-> p.history,
    gestureHistory |->
      GestureMapHands(frame,
                      [ p.state EXCEPT
                          !.hands = SubSeq(p.state.hands, 1, FirstIncomplete(frame) - 1) ],
                      1, << >>, gestHist, cfg.gesture).history ]

DeliverIncomplete(source, desc) ==
  /\ source \in attached
  /\ \E i \in 1..Len(desc.hands) : ~Complete(LandmarksOf[desc.hands[i]])
  /\ \E r \in { ThrownResult(FrameOf(desc), gestureHistory, stageConfig,
                              PositionProcess(FrameOf(desc),
                                              [ createEmptyControlState(0) EXCEPT
                                                  !.timestamp = desc.timestamp ],
                                              handHistory, stageConfig.position)) } :
       /\ lastTimestamp' = r.lastTimestamp
       /\ handHistory' = r.handHistory
       /\ gestureHistory' = r.gestureHistory
  /\ attached' = attached \ {source}
  /\ frameCount' = frameCount + 1
  /\ op' = Op("frame", source, desc, FALSE)
  /\ UNCHANGED << subscription, replaced, stateValue, observers, received, config,
                  stageConfig, distanceHistory, resetCount, sinceReset, prevTick, monotone,
                  watch, everSeen, returned, prevFrame, probe, tracker, smoother >>

(* ResetEffect that does not reset the controllers. *)
ResetEffect_keepsHistory(now, sub, att, posHist, gestHist, distHist, last) ==
  [ subscription |-> sub,
    attached |-> att,
    handHistory |-> posHist,
    gestureHistory |-> gestHist,
    distanceHistory |-> distHist,
    publish |-> Some(createEmptyControlState(now)),
    lastTimestamp |-> 0 ]

(* ResetEffect that also stops the manager. *)
ResetEffect_stops(now, sub, att, posHist, gestHist, distHist, last) ==
  [ subscription |-> NoSource,
    attached |-> att \ {sub},
    handHistory |-> EmptyMap,
    gestureHistory |-> EmptyMap,
    distanceHistory |-> EmptyDistanceHistory,
    publish |-> Some(createEmptyControlState(now)),
    lastTimestamp |-> 0 ]

(* ResetEffect that publishes nothing. *)
ResetEffect_silent(now, sub, att, posHist, gestHist, distHist, last) ==
  [ subscription |-> sub,
    attached |-> att,
    handHistory |-> EmptyMap,
    gestureHistory |-> EmptyMap,
    distanceHistory |-> EmptyDistanceHistory,
    publish |-> Null,
    lastTimestamp |-> 0 ]

(***************************************************************************)
(* reset(): every controller clears its history, an empty state is passed  *)
(* to stateSubject.next (publish), lastTimestamp returns to 0.  The        *)
(* subscription is not touched.                                            *)
(***************************************************************************)
ResetEffect(now, sub, att, posHist, gestHist, distHist, last) ==
  [ subscription |-> sub,
    attached |-> att,
    handHistory |-> EmptyMap,
    gestureHistory |-> EmptyMap,
    distanceHistory |-> EmptyDistanceHistory,
    publish |-> Some(createEmptyControlState(now)),
    lastTimestamp |-> 0 ]

Reset ==
  /\ resetCount < MaxResets
  /\ \E now \in NowValues :
       \E r \in { ResetEffect(now, subscription, attached, handHistory, gestureHistory,
                              distanceHistory, lastTimestamp) } :
           /\ subscription' = r.subscription
           /\ attached' = r.attached
           /\ handHistory' = r.handHistory
           /\ gestureHistory' = r.gestureHistory
           /\ distanceHistory' = r.distanceHistory
           /\ IF r.publish # Null
              THEN SubjectNext(r.publish[1])
              ELSE UNCHANGED << stateValue, received >>
           /\ lastTimestamp' = r.lastTimestamp
  /\ resetCount' = resetCount + 1
  /\ sinceReset' = 0
  /\ prevTick' = Null
  /\ watch' = EmptyMap
  /\ everSeen' = {}
  /\ returned' = {}
  /\ prevFrame' = Null
  /\ op' = Op("reset", NoSource, NoFrame, FALSE)
  /\ UNCHANGED << replaced, observers, config, stageConfig, frameCount, monotone, probe, tracker, smoother >>

(* updateConfig(partial): merge into the manager's copy, then hand each     *)
(* supplied section to its controller, which merges it into its own copy.  *)
UpdateConfig(partial) ==
  /\ config' = mergeConfig(config, Some(partial))
  /\ stageConfig' =
       [ position |-> SpreadOptional(stageConfig.position, partial.position),
         gesture  |-> SpreadOptional(stageConfig.gesture, partial.gesture),
         distance |-> SpreadOptional(stageConfig.distance, partial.distance) ]
  /\ op' = Op("updateConfig", NoSource, NoFrame, FALSE)
  /\ UNCHANGED << subscription, attached, replaced, stateValue, observers, received, lastTimestamp,
                  handHistory, gestureHistory, distanceHistory, frameCount, resetCount,
                  sinceReset, prevTick, monotone, watch, everSeen, returned, prevFrame,
                  probe, tracker, smoother >>

(* The whole manager: lifecycle, reconfiguration, subscribers, two sources. *)
Next ==
  \/ \E source \in Sources : Start(source)
  \/ Stop
  \/ Reset
  \/ \E partial \in PartialConfigs : UpdateConfig(partial)
  \/ \E s \in Subscribers : Subscribe(s)
  \/ \E source \in Sources :
       \E desc \in IF source \in attached THEN FrameDescs ELSE {NoFrame} :
         /\ source \in attached => frameCount < MaxFrames
         /\ Deliver(source, desc)

Spec == Init /\ [][Next]_vars

(* One source and longer runs of one hand changing shape. *)
NextGesture ==
  \/ Start("A")
  \/ Reset
  \/ \E partial \in GesturePartials : UpdateConfig(partial)
  \/ \E desc \in GestureFrameDescs :
       /\ "A" \in attached
       /\ frameCount < MaxTicks
       /\ Deliver("A", desc)

SpecGesture == Init /\ [][NextGesture]_vars

(***************************************************************************)
(* Properties.                                                             *)
(***************************************************************************)
(* The state was reached by processing a frame: stateValue is its result. *)
Tick == op.kind = "frame" /\ op.processed

(* C1: with minDuration > 0 and non-decreasing timestamps, a hand that had *)
(* a previous tick reports the gesture it reported on that tick until its  *)
(* raw classification has lasted minDuration, and the raw classification   *)
(* from then on.                                                           *)
C1_HysteresisKeepsReported ==
  (Tick /\ monotone /\ stageConfig.gesture.minDuration > 0) =>
    \A id \in DOMAIN watch :
      watch[id].before # Null =>
        watch[id].reported =
          IF stateValue.timestamp - watch[id].since >= stageConfig.gesture.minDuration
          THEN watch[id].raw
          ELSE watch[id].before[1]

(* C2: on every tick the duration of every hand is 0 if its raw            *)
(* classification differs from the one of its previous tick, and is the    *)
(* time since the tick on which the raw classification first appeared.     *)
C2_DurationFollowsRaw ==
  Tick =>
    \A i \in 1..Len(stateValue.hands) :
      LET hand == stateValue.hands[i]
          w == watch[hand.handId]
      IN  /\ w.changed => hand.gesture.duration = 0
          /\ hand.gesture.duration = stateValue.timestamp - w.since

(* A raw classification that has lasted, while hysteresis was in force. *)
C2_Witness ==
  /\ Tick
  /\ stageConfig.gesture.minDuration > 0
  /\ \E i \in 1..Len(stateValue.hands) :
       /\ stateValue.hands[i].gesture.duration > 0
       /\ stateValue.hands[i].gesture.duration < stageConfig.gesture.minDuration
       /\ watch[stateValue.hands[i].handId].before # Null

(* C3: with minDuration = 0 and non-decreasing timestamps the reported     *)
(* gesture of every hand is the raw classification of the tick.            *)
C3_InstantReport ==
  (Tick /\ monotone /\ stageConfig.gesture.minDuration = 0) =>
    \A i \in 1..Len(stateValue.hands) :
      stateValue.hands[i].gesture.type = watch[stateValue.hands[i].handId].raw

(* The raw classification has just changed and is reported at once. *)
C3_Witness ==
  /\ Tick /\ monotone /\ stageConfig.gesture.minDuration = 0
  /\ \E i \in 1..Len(stateValue.hands) :
       /\ watch[stateValue.hands[i].handId].changed
       /\ stateValue.hands[i].gesture.type = CLOSED_FIST

(* The stage histories and what a frame changes besides them. *)
pipeline == << stateValue, received, lastTimestamp, handHistory, gestureHistory,
               distanceHistory >>

(* C4: at most one source is attached, and a frame of a source other than  *)
(* the one the manager was last started on is not processed: it changes    *)
(* neither the published state, the histories nor lastTimestamp.           *)
C4_OneSourceAtATime ==
  [][ /\ Cardinality(attached') <= 1
      /\ (op'.kind = "frame" /\ op'.source # subscription) =>
           (~op'.processed /\ UNCHANGED pipeline) ]_vars

(* A frame of A arrives after start(B) replaced A, once A's frames had     *)
(* been processed.                                                         *)
C4_Witness ==
  /\ op.kind = "frame" /\ ~op.processed /\ op.source = "A"
  /\ subscription = "B" /\ replaced = "A"
  /\ frameCount >= 1

(* C5: stop() detaches the manager and publishes nothing, is a no-op when  *)
(* the manager is Idle, and a frame delivered while it is Idle is not      *)
(* processed: the current state and the subscribers' view stay as they     *)
(* were.                                                                   *)
C5_StopDetaches ==
  [][ /\ op'.kind = "stop" =>
           /\ subscription' = NoSource /\ attached' = {}
           /\ UNCHANGED pipeline
           /\ subscription = NoSource => attached' = attached
      /\ (op'.kind = "frame" /\ subscription = NoSource) =>
           (~op'.processed /\ getCurrentState' = getCurrentState
            /\ received' = received) ]_vars

(* A frame arrives at a manager that processed frames and was stopped. *)
C5_Witness ==
  /\ op.kind = "frame" /\ ~op.processed
  /\ subscription = NoSource
  /\ frameCount >= 1
  /\ stateValue.hasActiveHand

IsEmptyState(state) ==
  /\ ~state.hasActiveHand
  /\ state.hands = << >>
  /\ state.primaryHand = Null
  /\ state.secondaryHand = Null
  /\ state.deltaTime = 0
  /\ DOMAIN state.custom = {}

(* C6: right after reset() the current state has no hands and every        *)
(* history is empty; on the first frame after it every hand is new: its    *)
(* position is the raw one, its velocity zero, its gesture duration 0 and  *)
(* the distances are the measurements of the frame, unblended.             *)
C6_ResetForgets ==
  /\ op.kind = "reset" =>
       /\ ~getCurrentState.hasActiveHand
       /\ getCurrentState.hands = << >>
       /\ handHistory = EmptyMap
       /\ gestureHistory = EmptyMap
       /\ distanceHistory = EmptyDistanceHistory
  /\ (Tick /\ sinceReset = 1) =>
       LET frame == FrameOf(op.frame)
       IN  /\ Len(stateValue.hands) = Len(frame.hands)
           /\ \A i \in 1..Len(frame.hands) :
                /\ stateValue.hands[i].position
                     = calculatePosition(frame.hands[i].landmarks, stageConfig.position)
                /\ stateValue.hands[i].velocity = ZeroVelocity
                /\ stateValue.hands[i].gesture.duration = 0
           /\ stateValue.custom["distances"]
                = calculateMeasurements(frame, stageConfig.distance)

(* The first frame after a reset() that followed earlier frames. *)
C6_Witness ==
  /\ Tick /\ sinceReset = 1
  /\ resetCount >= 1 /\ frameCount >= 2
  /\ Len(stateValue.hands) >= 1

(* C7: reset() leaves the subscription as it is, and a frame of the source *)
(* the manager is on is processed and published.                           *)
C7_ResetKeepsLifecycle ==
  [][ /\ op'.kind = "reset" => (subscription' = subscription /\ attached' = attached)
      /\ (op'.kind = "frame" /\ op'.source = subscription) =>
           /\ op'.processed
           /\ getCurrentState'.timestamp = op'.frame.timestamp
           /\ \A s \in observers : received'[s] = Hand(received[s], getCurrentState') ]_vars

(* reset() was called on a Running manager that had processed frames. *)
C7_Witness ==
  /\ op.kind = "reset"
  /\ subscription # NoSource /\ attached = {subscription}
  /\ frameCount >= 1

Publishes(o) == (o.kind = "frame" /\ o.processed) \/ o.kind = "reset"

(* C8 as claimed: a subscriber is handed one state per processed frame and *)
(* nothing else, in particular nothing when it subscribes.                 *)
C8_OnlyLaterTicks ==
  [][ /\ (op'.kind = "frame" /\ op'.processed) =>
           \A s \in observers : received'[s] = Hand(received[s], stateValue')
      /\ ~(op'.kind = "frame" /\ op'.processed) => received' = received ]_vars

(* C8 amended: a subscriber is handed the current state when it            *)
(* subscribes, then every state published after that, one per processed    *)
(* frame and one per reset(), and nothing else.                            *)
C8_ReplayThenEveryState ==
  [][ /\ Publishes(op') =>
           \A s \in Subscribers :
             received'[s] = IF s \in observers
                            THEN Hand(received[s], stateValue')
                            ELSE received[s]
      /\ op'.kind = "subscribe" =>
           \A s \in Subscribers :
             received'[s] = IF s \in observers' \ observers
                            THEN Hand(received[s], stateValue)
                            ELSE received[s]
      /\ (~Publishes(op') /\ op'.kind # "subscribe") => received' = received ]_vars

(* A subscriber that joined after a frame was published, and was handed    *)
(* that frame's state at once.                                             *)
C8_Witness ==
  /\ op.kind = "subscribe"
  /\ frameCount >= 1 /\ stateValue.hasActiveHand
  /\ \E s \in observers : received[s] = [ count |-> 1, last |-> Some(stateValue) ]

(* C9: getCurrentState() is what the subscribers of state$ were handed     *)
(* last: the empty state while no frame was processed since construction   *)
(* or reset(), else the result of the last processed frame.                *)
C9_CurrentIsLastPublished ==
  /\ \A s \in observers : received[s].last = Some(getCurrentState)
  /\ sinceReset = 0 => IsEmptyState(getCurrentState)
  /\ sinceReset > 0 =>
       /\ getCurrentState.timestamp = prevTick[1]
       /\ "distances" \in DOMAIN getCurrentState.custom
  /\ Tick => Len(getCurrentState.hands) = Len(op.frame.hands)

(* Frames, a reset, a frame, then stop and updateConfig, with a subscriber. *)
C9_Witness ==
  /\ op.kind = "updateConfig"
  /\ subscription = NoSource
  /\ observers # {}
  /\ resetCount >= 1 /\ frameCount >= 2 /\ sinceReset >= 1

(* C10: deltaTime of a processed frame is its timestamp minus that of the  *)
(* frame processed before it, and 0 for the first frame after construction *)
(* or reset().                                                             *)
C10_DeltaTime ==
  [][ (op'.kind = "frame" /\ op'.processed) =>
        stateValue'.deltaTime =
          IF prevTick = Null THEN 0 ELSE op'.frame.timestamp - prevTick[1] ]_vars

(***************************************************************************)
(* Frames of no, one or two hands, the hands coming and going.             *)
(***************************************************************************)
NextHands ==
  \/ Start("A")
  \/ Reset
  \/ \E partial \in DistancePartials :
       /\ frameCount = 0
       /\ UpdateConfig(partial)
  \/ \E desc \in HandsFrameDescs :
       /\ "A" \in attached
       /\ frameCount < MaxHandTicks
       /\ Deliver("A", desc)

SpecHands == Init /\ [][NextHands]_vars

(* The hand ids of a sequence of hand states, in order. *)
StateIds(hands) == [ i \in 1..Len(hands) |-> hands[i].handId ]

(* The hand ids of the hands of a frame, in order. *)
FrameIds(hands) == [ i \in 1..Len(hands) |-> hands[i].id ]

(* C11: the hands of the state published for a frame are the hands of the *)
(* frame, one entry each, in the order of the frame.                       *)
C11_HandsFollowFrame ==
  Tick => StateIds(stateValue.hands) = FrameIds(op.frame.hands)

(* A frame of two hands, the hand with the larger id first. *)
C11_Witness ==
  /\ Tick
  /\ Len(stateValue.hands) = 2
  /\ stateValue.hands[1].handId = 1 /\ stateValue.hands[2].handId = 0

(* C12: hasActiveHand says whether hands is non-empty, primaryHand is the  *)
(* first entry of hands and secondaryHand the second, as the last stage    *)
(* left them, and null where there is no such entry.                       *)
C12_PrimaryAndSecondary ==
  /\ stateValue.hasActiveHand = (Len(stateValue.hands) > 0)
  /\ stateValue.primaryHand =
       IF Len(stateValue.hands) >= 1 THEN Some(stateValue.hands[1]) ELSE Null
  /\ stateValue.secondaryHand =
       IF Len(stateValue.hands) >= 2 THEN Some(stateValue.hands[2]) ELSE Null

(* Two hands, both with the fields of the gesture stage. *)
C12_Witness ==
  /\ Tick
  /\ Len(stateValue.hands) = 2
  /\ stateValue.primaryHand[1].gesture.confidence > 0
  /\ stateValue.secondaryHand[1].fingers.extendedCount = 5

(* C13: after a processed frame the position history and the gesture       *)
(* history hold exactly the hands of the frame, and a hand that was not in *)
(* the frame processed before is a first sighting: raw position, zero      *)
(* velocity, gesture duration 0.                                           *)
C13_HistoryFollowsFrame ==
  [][ (op'.kind = "frame" /\ op'.processed) =>
        /\ DOMAIN handHistory' = HandIds(FrameOf(op'.frame))
        /\ DOMAIN gestureHistory' = HandIds(FrameOf(op'.frame))
        /\ \A i \in 1..Len(op'.frame.hands) :
             op'.frame.hands[i].id \notin DOMAIN watch =>
               /\ stateValue'.hands[i].position
                    = calculatePosition(LandmarksOf[op'.frame.hands[i]],
                                        stageConfig.position)
               /\ stateValue'.hands[i].velocity = ZeroVelocity
               /\ stateValue'.hands[i].gesture.duration = 0 ]_vars

(* A hand is back after a tick without it. *)
C13_Witness ==
  /\ Tick
  /\ returned # {}
  /\ \E i \in 1..Len(stateValue.hands) : stateValue.hands[i].handId \in returned

(* The number of flags of a FingerStates that are set. *)
FlagCount(fingers) ==
  Cardinality({ f \in {"thumb", "index", "middle", "ring", "pinky"} : fingers[f] })

(* C20: extendedCount of every published hand is the number of its finger  *)
(* flags that are set, between 0 and 5.                                    *)
C20_ExtendedCount ==
  \A i \in 1..Len(stateValue.hands) :
    /\ stateValue.hands[i].fingers.extendedCount = FlagCount(stateValue.hands[i].fingers)
    /\ stateValue.hands[i].fingers.extendedCount \in 0..5

(* A fist and an open hand in one frame. *)
C20_Witness ==
  /\ Tick
  /\ \E i \in 1..Len(stateValue.hands) : stateValue.hands[i].fingers.extendedCount = 5
  /\ \E i \in 1..Len(stateValue.hands) : stateValue.hands[i].fingers.extendedCount = 0

(***************************************************************************)
(* One hand under the configurations of the position stage, set before the *)
(* first frame.                                                            *)
(***************************************************************************)
NextPosition ==
  \/ Start("A")
  \/ \E partial \in PositionPartials :
       /\ frameCount = 0
       /\ UpdateConfig(partial)
  \/ \E desc \in PositionFrameDescs :
       /\ "A" \in attached
       /\ frameCount < MaxPositionTicks
       /\ Deliver("A", desc)

SpecPosition == Init /\ [][NextPosition]_vars

(* The raw position of hand i of a frame description. *)
RawPosition(desc, i) == calculatePosition(LandmarksOf[desc.hands[i]], stageConfig.position)

(* The hand of the published state and its raw position in the frame. *)
ReportsRaw(i) == stateValue.hands[i].position = RawPosition(op.frame, i)

(* C14 as stated: with smoothing enabled, smoothing factor 1 and movement  *)
(* threshold 0, the position reported on every tick is the raw position of *)
(* that tick.                                                              *)
C14_FactorOneIsRaw ==
  ( /\ Tick
    /\ stageConfig.position.smoothingEnabled
    /\ stageConfig.position.smoothingFactor = Unit
    /\ stageConfig.position.movementThreshold = 0 )
  => \A i \in 1..Len(stateValue.hands) : ReportsRaw(i)

(* C14 amended: with smoothing enabled, smoothing factor 0 and movement    *)
(* threshold 0, the position reported on every tick is the raw position of *)
(* that tick.                                                              *)
C14_FactorZeroIsRaw ==
  ( /\ Tick
    /\ stageConfig.position.smoothingEnabled
    /\ stageConfig.position.smoothingFactor = 0
    /\ stageConfig.position.movementThreshold = 0 )
  => \A i \in 1..Len(stateValue.hands) : ReportsRaw(i)

C14_Witness ==
  /\ Tick
  /\ sinceReset >= 2
  /\ stageConfig.position.smoothingEnabled
  /\ stageConfig.position.smoothingFactor = 0
  /\ stageConfig.position.movementThreshold = 0
  /\ Len(stateValue.hands) = 1
  /\ stateValue.hands[1].velocity.magnitude > 0

(* Hand i of the frame being processed was hand j of the frame processed   *)
(* before it, at the same raw position.                                    *)
SameRawAsBefore(i, j) ==
  /\ op'.frame.hands[i].id = prevFrame[1].hands[j].id
  /\ RawPosition(op'.frame, i) = RawPosition(prevFrame[1], j)

C16_FirstSightingIsRaw ==
  [][ (op'.kind = "frame" /\ op'.processed) =>
        \A i \in 1..Len(op'.frame.hands) :
          op'.frame.hands[i].id \notin DOMAIN handHistory =>
            /\ stateValue'.hands[i].position = RawPosition(op'.frame, i)
            /\ stateValue'.hands[i].velocity = ZeroVelocity ]_vars

(* A hand is back after a tick out of sight, where it had been seen, under *)
(* a movement threshold that swallows the whole way.                       *)
C16_Witness ==
  /\ Tick
  /\ returned # {}
  /\ stageConfig.position.smoothingEnabled
  /\ stageConfig.position.movementThreshold = 400
  /\ Len(stateValue.hands) = 1
  /\ stateValue.hands[1].handId \in returned
  /\ stateValue.hands[1].position = RawPosition(op.frame, 1)
  /\ stateValue.hands[1].position.x = 630
  /\ stateValue.hands[1].velocity = ZeroVelocity

(* The published state has a hand of this id. *)
WasReported(id) == \E j \in 1..Len(stateValue.hands) : stateValue.hands[j].handId = id

(* The position last reported for a hand of the published state. *)
LastReported(id) ==
  stateValue.hands[CHOOSE j \in 1..Len(stateValue.hands) :
                     stateValue.hands[j].handId = id].position

(* The position of hand i of the frame being processed after smoothing. *)
NewlySmoothed(i) ==
  IF stageConfig.position.smoothingEnabled
  THEN smoothPosition(RawPosition(op'.frame, i), LastReported(op'.frame.hands[i].id),
                      stageConfig.position)
  ELSE RawPosition(op'.frame, i)

(* The newly smoothed position of hand i is nearer to the last reported    *)
(* one than movementThreshold.                                             *)
BelowThreshold(i) ==
  LET dx == NewlySmoothed(i).x - LastReported(op'.frame.hands[i].id).x
      dy == NewlySmoothed(i).y - LastReported(op'.frame.hands[i].id).y
  IN  dx * dx + dy * dy
        < stageConfig.position.movementThreshold * stageConfig.position.movementThreshold

(* C17: a hand whose newly smoothed position is nearer to its last         *)
(* reported position than movementThreshold is reported at the last        *)
(* reported position with zero velocity; any other hand that was reported  *)
(* before is reported at its newly smoothed position.                      *)
C17_JitterSuppression ==
  [][ (op'.kind = "frame" /\ op'.processed) =>
        \A i \in 1..Len(op'.frame.hands) :
          WasReported(op'.frame.hands[i].id) =>
            IF BelowThreshold(i)
            THEN /\ stateValue'.hands[i].position = LastReported(op'.frame.hands[i].id)
                 /\ stateValue'.hands[i].velocity = ZeroVelocity
            ELSE stateValue'.hands[i].position = NewlySmoothed(i) ]_vars

(* Without smoothing, a hand is reported elsewhere than at its raw         *)
(* position: the movement was suppressed.                                  *)
C17_Witness ==
  /\ Tick
  /\ sinceReset >= 2
  /\ stateValue.deltaTime > 0
  /\ ~stageConfig.position.smoothingEnabled
  /\ Len(stateValue.hands) = 1
  /\ stateValue.hands[1].position # RawPosition(op.frame, 1)
  /\ stateValue.hands[1].velocity = ZeroVelocity

(* The time in ms from the frame processed before to the one in process. *)
Elapsed == op'.frame.timestamp - prevFrame[1].timestamp

(* The velocity of hand i of the new state is the way from the position    *)
(* last reported to the new one over the elapsed time in seconds.          *)
VelocityIsQuotient(i) ==
  LET from == LastReported(op'.frame.hands[i].id)
      to == stateValue'.hands[i].position
      v == stateValue'.hands[i].velocity
  IN  /\ v.vx = ((to.x - from.x) * 1000) \div Elapsed
      /\ v.vy = ((to.y - from.y) * 1000) \div Elapsed
      /\ v.magnitude = Sqrt(v.vx * v.vx + v.vy * v.vy)

(* C18: with velocity calculation on, a hand with no sample before this    *)
(* tick, or whose sample before is not older than this one, has the zero   *)
(* velocity; any other hand has the difference of its reported positions   *)
(* over the elapsed seconds, and the divisor is never 0.                   *)
C18_VelocityGuarded ==
  [][ (op'.kind = "frame" /\ op'.processed /\ stageConfig.position.calculateVelocity) =>
        \A i \in 1..Len(op'.frame.hands) :
          IF ~WasReported(op'.frame.hands[i].id)
          THEN stateValue'.hands[i].velocity = ZeroVelocity
          ELSE IF Elapsed <= 0
          THEN stateValue'.hands[i].velocity = ZeroVelocity
          ELSE VelocityIsQuotient(i) ]_vars

(* The second frame is older than the first and the hand has moved: the    *)
(* position is the smoothed one, the velocity zero.                        *)
C18_Witness ==
  /\ Tick
  /\ frameCount = 2
  /\ ~monotone
  /\ Len(stateValue.hands) = 1
  /\ stateValue.hands[1].position.x = 540
  /\ stateValue.hands[1].velocity = ZeroVelocity

(***************************************************************************)
(* detectGesture on its own: the landmarks of the four hand shapes, every  *)
(* FingerStates and the openness values around the two limits.             *)
(***************************************************************************)
FingerFlags == [ thumb : BOOLEAN, index : BOOLEAN, middle : BOOLEAN, ring : BOOLEAN, pinky : BOOLEAN ]

FingerStatesOf(flags) ==
  [ thumb |-> flags.thumb, index |-> flags.index, middle |-> flags.middle,
    ring |-> flags.ring, pinky |-> flags.pinky, extendedCount |-> FlagCount(flags) ]

DetectLandmarks ==
  { lm \in { LandmarksOf[HandDesc(0, shape, 300, 500)] : shape \in Shapes } : Complete(lm) }

DetectOpenness == {0, 299, 300, 500, 501, 1000}

DetectInputs ==
  { [ function |-> "detectGesture", landmarks |-> lm, fingers |-> FingerStatesOf(flags),
      openness |-> o, result |-> Null ] :
      lm \in DetectLandmarks, flags \in FingerFlags, o \in DetectOpenness }

InitDetect ==
  /\ InitManager
  /\ probe \in DetectInputs
  /\ smoother = TrackerSmoother

Detect ==
  /\ probe.function = "detectGesture"
  /\ probe.result = Null
  /\ probe' = [ probe EXCEPT !.result = Some(detectGesture(probe.landmarks, probe.fingers,
                                                           probe.openness, stageConfig.gesture)) ]
  /\ UNCHANGED << subscription, attached, replaced, stateValue, observers, received,
                  lastTimestamp, config, stageConfig, handHistory, gestureHistory,
                  distanceHistory, frameCount, resetCount, sinceReset, prevTick, monotone,
                  watch, everSeen, returned, prevFrame, tracker, smoother, op >>

NextDetect == Detect

SpecDetect == InitDetect /\ [][NextDetect]_vars

(* The rules of detectGesture in their order, each with its gesture. *)
RuleGesture == << PINCH, CLOSED_FIST, THUMBS_UP, POINTING, PEACE, OPEN_HAND, NONE >>

PinchDistance(landmarks) == distance2D(landmarks[THUMB_TIP], landmarks[INDEX_FINGER_TIP])

RuleMatches(k, landmarks, f, openness) ==
  CASE k = 1 -> PinchDistance(landmarks) < stageConfig.gesture.pinchThreshold
    [] k = 2 -> f.extendedCount = 0 /\ openness < 300
    [] k = 3 -> f.thumb /\ ~f.index /\ ~f.middle /\ ~f.ring /\ ~f.pinky
    [] k = 4 -> ~f.thumb /\ f.index /\ ~f.middle /\ ~f.ring /\ ~f.pinky
    [] k = 5 -> ~f.thumb /\ f.index /\ f.middle /\ ~f.ring /\ ~f.pinky
    [] k = 6 -> f.extendedCount >= 4 /\ openness > 500
    [] OTHER -> TRUE

FirstRule(landmarks, f, openness) ==
  CHOOSE k \in 1..7 :
    /\ RuleMatches(k, landmarks, f, openness)
    /\ \A j \in 1..(k - 1) : ~RuleMatches(j, landmarks, f, openness)

Detected == probe.function = "detectGesture" /\ probe.result # Null

Distances == stateValue.custom["distances"]

(* C21: the two-hand distances and secondaryPinch of a processed frame are *)
(* null when the frame has fewer than two hands and not null when it has   *)
(* two, with distance smoothing on or off.                                 *)
C21_TwoHandDistances ==
  Tick =>
    \A k \in {"palmToPalm", "indexToIndex", "thumbToThumb", "secondaryPinch"} :
      (Distances[k] = Null) = (Len(op.frame.hands) < 2)

(* The second frame has one hand of the two of the first, with smoothing.  *)
C21_Witness ==
  /\ Tick
  /\ sinceReset = 2
  /\ everSeen = {0, 1}
  /\ stageConfig.distance.smoothingEnabled
  /\ Len(stateValue.hands) = 1
  /\ stateValue.hands[1].handId = 0
  /\ stateValue.hands[1].gesture.duration > 0
  /\ Distances.palmToPalm = Null
  /\ Distances.primaryPinch # Null

(* The five distances that may be null. *)
DistanceKeys == {"palmToPalm", "indexToIndex", "thumbToThumb", "primaryPinch", "secondaryPinch"}

(* The measurements of a frame description before smoothing. *)
RawMeasurements(desc) == calculateMeasurements(FrameOf(desc), stageConfig.distance)

(* C22: with distance smoothing on, a distance that was null or absent in  *)
(* the state published before and is measured now is published as          *)
(* measured; one that was not null is published as the weighted mean of    *)
(* the measured value and the value published before.                      *)
C22_DistanceSmoothing ==
  [][ (op'.kind = "frame" /\ op'.processed /\ stageConfig.distance.smoothingEnabled) =>
        \A raw \in { RawMeasurements(op'.frame) } :
          \A k \in DistanceKeys :
            raw[k] # Null =>
              stateValue'.custom["distances"][k] =
                IF "distances" \in DOMAIN stateValue.custom /\ Distances[k] # Null
                THEN Some(((Unit - stageConfig.distance.smoothingFactor) * raw[k][1]
                           + stageConfig.distance.smoothingFactor * Distances[k][1])
                          \div Unit)
                ELSE raw[k] ]_vars

(* The second hand has just appeared: palmToPalm is published as measured, *)
(* primaryPinch is blended with its value of the tick before.              *)
C22_Witness ==
  /\ Tick
  /\ sinceReset = 2
  /\ stageConfig.distance.smoothingEnabled
  /\ Len(stateValue.hands) = 2
  /\ Distances.palmToPalm = RawMeasurements(op.frame).palmToPalm
  /\ Distances.primaryPinch # RawMeasurements(op.frame).primaryPinch

(* The 2D distances of a frame description as measured, not normalised. *)
RawDistances(desc) ==
  calculateMeasurements(FrameOf(desc),
                        [ stageConfig.distance EXCEPT !.normalizeToHandSize = FALSE ])

(* C23: with normalizeToHandSize on, a distance published unsmoothed is    *)
(* the 2D distance over the average hand size of the frame, and the 2D     *)
(* distance itself where that hand size is 0.                              *)
C23_NormalizedOrRaw ==
  ( /\ Tick
    /\ stageConfig.distance.normalizeToHandSize
    /\ ~stageConfig.distance.smoothingEnabled \/ sinceReset = 1 )
  => \A raw \in { RawDistances(op.frame) } :
       \A handSize \in { calculateAverageHandSize(FrameOf(op.frame).hands) } :
         \A k \in DistanceKeys :
           raw[k] # Null =>
             Distances[k] = IF handSize > 0
                            THEN Some((raw[k][1] * Unit) \div handSize)
                            ELSE raw[k]

(* A hand of size 0 with thumb and index apart. *)
C23_Witness ==
  /\ Tick
  /\ stageConfig.distance.normalizeToHandSize
  /\ ~stageConfig.distance.smoothingEnabled
  /\ sinceReset = 2
  /\ Len(op.frame.hands) = 1
  /\ calculateAverageHandSize(FrameOf(op.frame).hands) = 0
  /\ Distances.primaryPinch # Null
  /\ Distances.primaryPinch[1] > 0
  /\ Distances.primaryPinch = RawDistances(op.frame).primaryPinch

(***************************************************************************)
(* Functions of the controllers called on their own.                       *)
(*                                                                         *)
(* DistanceController.process is called with a frame and the state a       *)
(* manager has published for a frame, whose auxiliary map is empty, holds   *)
(* a key of the caller, or holds that key and the distances of before; the *)
(* controller is fresh or has processed a frame.                           *)
(***************************************************************************)
PublishedFor(desc) ==
  processFrame(FrameOf(desc), 0, DEFAULT_CONTROLLER_CONFIG, EmptyMap, EmptyMap,
               EmptyDistanceHistory)

CustomMaps(published) ==
  { EmptyMap,
    MapSet(EmptyMap, "tempo", 120),
    MapSet(published.state.custom, "tempo", 120) }

ProcessInputs ==
  { [ function |-> "process", frame |-> desc,
      state |-> [ PublishedFor(before).state EXCEPT !.custom = custom ],
      history |-> history, result |-> Null ] :
      desc \in HandsFrameDescs,
      before \in { d \in HandsFrameDescs : d.timestamp = 100 },
      custom \in UNION { CustomMaps(PublishedFor(d)) : d \in HandsFrameDescs },
      history \in { EmptyDistanceHistory } \cup
                  { PublishedFor(d).distanceHistory : d \in HandsFrameDescs } }

(* detectGesture and calculateGestureConfidence as processHand calls them, *)
(* on the inputs of DetectInputs.                                          *)
ConfidenceInputs ==
  { [ input EXCEPT !.function = "calculateGestureConfidence" ] : input \in DetectInputs }

ProbeInputs == ProcessInputs \cup ConfidenceInputs

InitProbe ==
  /\ InitManager
  /\ probe \in ProbeInputs
  /\ smoother = TrackerSmoother

ProbeVarsUnchanged ==
  UNCHANGED << subscription, attached, replaced, stateValue, observers, received,
               lastTimestamp, config, stageConfig, handHistory, gestureHistory,
               distanceHistory, frameCount, resetCount, sinceReset, prevTick, monotone,
               watch, everSeen, returned, prevFrame, tracker, smoother, op >>

ProbeProcess ==
  /\ probe.function = "process"
  /\ probe.result = Null
  /\ probe' = [ probe EXCEPT !.result = Some(DistanceProcess(FrameOf(probe.frame), probe.state,
                                                             probe.history,
                                                             stageConfig.distance).state) ]
  /\ ProbeVarsUnchanged

ProbeConfidence ==
  /\ probe.function = "calculateGestureConfidence"
  /\ probe.result = Null
  /\ \E detectedGesture \in { detectGesture(probe.landmarks, probe.fingers, probe.openness,
                                             stageConfig.gesture) } :
       probe' = [ probe EXCEPT
                    !.result = Some([ detectedGesture |-> detectedGesture,
                                      confidence |->
                                        calculateGestureConfidence(detectedGesture,
                                                                   probe.fingers,
                                                                   probe.openness) ]) ]
  /\ ProbeVarsUnchanged

NextProbe ==
  \/ ProbeProcess
  \/ ProbeConfidence

SpecProbe == InitProbe /\ [][NextProbe]_vars

(* C24: the state DistanceController.process returns differs from the one  *)
(* it was given in the entry distances of the auxiliary map only.          *)
C24_OnlyDistances ==
  (probe.function = "process" /\ probe.result # Null) =>
    /\ \A f \in DOMAIN probe.state \ {"custom"} : probe.result[1][f] = probe.state[f]
    /\ DOMAIN probe.result[1] = DOMAIN probe.state
    /\ DOMAIN probe.result[1].custom = DOMAIN probe.state.custom \cup {"distances"}
    /\ \A k \in DOMAIN probe.state.custom \ {"distances"} :
         probe.result[1].custom[k] = probe.state.custom[k]

(* A state of two hands with a key of the caller and distances of before,  *)
(* processed with a frame of one hand.                                     *)
C24_Witness ==
  /\ probe.function = "process"
  /\ probe.result # Null
  /\ Len(probe.state.hands) = 2
  /\ Len(probe.frame.hands) = 1
  /\ DOMAIN probe.state.custom = {"tempo", "distances"}
  /\ probe.result[1].custom["tempo"] = 120
  /\ probe.result[1].custom["distances"] # probe.state.custom["distances"]

(* C25: updateConfig sets the keys its argument supplies, in the stage's    *)
(* configuration and in the manager's copy, and leaves every other key,    *)
(* the histories of the stages, the subscription, the published state and  *)
(* lastTimestamp as they were.                                             *)
C25_UpdateConfigOnlySupplied ==
  [][ op'.kind = "updateConfig" =>
        /\ \E partial \in GesturePartials :
             \A stage \in {"position", "gesture", "distance"} :
               /\ DOMAIN stageConfig'[stage] = DOMAIN stageConfig[stage]
               /\ \A k \in DOMAIN stageConfig[stage] :
                    /\ stageConfig'[stage][k] =
                         IF partial[stage] # Null /\ k \in DOMAIN partial[stage][1]
                         THEN partial[stage][1][k]
                         ELSE stageConfig[stage][k]
                    /\ config'[stage][k] = stageConfig'[stage][k]
        /\ UNCHANGED << handHistory, gestureHistory, distanceHistory, subscription,
                        attached, stateValue, lastTimestamp, observers >> ]_vars

(* Both partial configurations were applied, the second with a hand in the *)
(* histories and the manager started.                                      *)
C25_Witness ==
  /\ op.kind = "updateConfig"
  /\ subscription # NoSource
  /\ DOMAIN handHistory # {}
  /\ DOMAIN gestureHistory # {}
  /\ distanceHistory.smoothedMeasurements # Null
  /\ stageConfig.position.movementThreshold = 400
  /\ ~stageConfig.position.smoothingEnabled
  /\ stageConfig.position.smoothingFactor = 300
  /\ stageConfig.distance.smoothingFactor = 500
  /\ stageConfig.gesture.minDuration = 0
  /\ stageConfig.gesture.pinchThreshold = 80

(* C26: the openness derivative of a hand that was in the frame before is  *)
(* the change of its smoothed openness since that frame over the           *)
(* milliseconds since that frame, taken as 1 at least.                     *)
C26_DerivativePerTick ==
  [][ (op'.kind = "frame" /\ op'.processed) =>
        \A i \in 1..Len(op'.frame.hands) :
          \A j \in 1..Len(stateValue.hands) :
            stateValue.hands[j].handId = op'.frame.hands[i].id =>
              stateValue'.hands[i].openness.derivative =
                ((stateValue'.hands[i].openness.value - stateValue.hands[j].openness.value)
                   * Unit)
                  \div Max(1, op'.frame.timestamp - prevFrame[1].timestamp) ]_vars

(***************************************************************************)
(* A manager with a subscriber, fed frames some of which have a hand with  *)
(* a landmark missing.                                                     *)
(***************************************************************************)
NextShort ==
  \/ Start("A")
  \/ Subscribe("s1")
  \/ \E hands \in WholeSeqs : \E t \in {100, 150} :
       /\ "A" \in attached
       /\ frameCount < MaxShortTicks
       /\ Deliver("A", [ hands |-> hands, timestamp |-> t ])
  \/ \E hands \in ShortSeqs : \E t \in {100, 150} :
       /\ frameCount < MaxShortTicks
       /\ DeliverIncomplete("A", [ hands |-> hands, timestamp |-> t ])

SpecShort == Init /\ [][NextShort]_vars

(* C27: every frame delivered on a live subscription of the manager is     *)
(* answered with a published ControlState of that tick, one entry per hand *)
(* of the frame, also when a hand of the frame has a landmark missing.     *)
C27_EveryFramePublished ==
  [][ (op'.kind = "frame" /\ op'.source \in attached) =>
        /\ stateValue'.timestamp = op'.frame.timestamp
        /\ Len(stateValue'.hands) = Len(op'.frame.hands)
        /\ \A s \in observers : received'[s].count = received[s].count + 1 ]_vars

MeanZ(desc, i) ==
  SumZ(LandmarksOf[desc.hands[i]], 0) \div Length(LandmarksOf[desc.hands[i]])

MaxLoading == 1    \* initialize() calls that wait for the model at one time
MaxRequests == 2   \* animation frames requested in a run
MaxSteps == 1      \* steps of the clock in a run

(* What a call or a continuation of the tracker was and how it ended. *)
TrackerOp(kind, outcome) == [ kind |-> kind, outcome |-> outcome ]

ManagerUnchanged ==
  UNCHANGED << subscription, attached, replaced, stateValue, observers, received,
               lastTimestamp, config, stageConfig, handHistory, gestureHistory,
               distanceHistory, frameCount, resetCount, sinceReset, prevTick, monotone,
               watch, everSeen, returned, prevFrame, probe >>

requestFrame(t) ==
  IF ~t.isTracking THEN t
  ELSE [ t EXCEPT !.animationFrameId = Some(t.requests + 1),
                  !.scheduled = @ \cup {t.requests + 1},
                  !.requests = @ + 1 ]

(* The tracker after stop(). *)
StopTracking(t) ==
  [ t EXCEPT !.isTracking = FALSE,
             !.scheduled = IF t.animationFrameId # Null THEN @ \ {t.animationFrameId[1]} ELSE @,
             !.animationFrameId = Null ]

MaxResults == 2    \* results MediaPipe hands over in a run

(* The landmarks MediaPipe finds: none, or a hand with its last landmark   *)
(* missing.                                                                *)
ResultSets ==
  { << >>,
    << createShortLandmarks(600, 500) >> }

convertLandmarks(landmarks) ==
  [ i \in 0..(LANDMARKS_PER_HAND - 1) |->
      IF i \in DOMAIN landmarks
        THEN Pt(landmarks[i].x, landmarks[i].y, landmarks[i].z)
        ELSE Pt(0, 0, 0) ]

(* The hands of the frame processResults builds: hand i of the results has *)
(* the id i, counted from 0, and the hands are smoothed under their ids.   *)
ResultHands(sm, results) ==
  [ i \in 1..Len(results) |->
      [ id |-> i - 1,
        landmarks |-> IF DEFAULT_HAND_TRACKER_CONFIG.smoothing
                        THEN smoothLandmarks(sm, i - 1, convertLandmarks(results[i]))
                        ELSE convertLandmarks(results[i]) ] ]

RECURSIVE SmootherAfterHands(_, _, _)
SmootherAfterHands(sm, results, i) ==
  IF i > Len(results) THEN sm
  ELSE SmootherAfterHands(SmootherAfterLandmarks(sm, i - 1, convertLandmarks(results[i])),
                          results, i + 1)

SmootherAfterResults(sm, results) ==
  IF DEFAULT_HAND_TRACKER_CONFIG.smoothing THEN SmootherAfterHands(sm, results, 1) ELSE sm

(* subject.next(frame): a completed subject hands nothing on. *)
SubjectNextFrame(t, hands) ==
  IF t.completed THEN t
  ELSE [ t EXCEPT !.received =
           [ s \in TrackerSubscribers |->
               IF s \in t.observers
                 THEN [ t.received[s] EXCEPT !.frames = @ + 1 ]
                 ELSE t.received[s] ] ]

(* subject.complete(): every observer is completed and let go. *)
SubjectComplete(t) ==
  IF t.completed THEN t
  ELSE [ t EXCEPT !.completed = TRUE,
                  !.observers = {},
                  !.received =
                    [ s \in TrackerSubscribers |->
                        IF s \in t.observers
                          THEN [ t.received[s] EXCEPT !.completed = TRUE ]
                          ELSE t.received[s] ] ]

(* initialize() up to its await: it throws on an initialized tracker. *)
TrackerInitialize ==
  /\ tracker.initialized \/ tracker.loading < MaxLoading
  /\ IF tracker.initialized
       THEN /\ tracker' = tracker
            /\ op' = TrackerOp("initialize", "rejected")
       ELSE /\ tracker' = [ tracker EXCEPT !.videoElement = TRUE, !.loading = @ + 1 ]
            /\ op' = TrackerOp("initialize", "pending")
  /\ ManagerUnchanged
  /\ UNCHANGED smoother

(* The rest of initialize() if it made a new subject for hands$. *)
LoadResolved_newSubject ==
  /\ tracker.loading > 0
  /\ tracker' = [ tracker EXCEPT !.hands = TRUE, !.initialized = TRUE, !.loading = @ - 1,
                                 !.completed = FALSE, !.observers = {} ]
  /\ op' = TrackerOp("initialize", "resolved")
  /\ ManagerUnchanged
  /\ UNCHANGED smoother

(* loadMediaPipeHands resolved: the rest of initialize(). *)
LoadResolved ==
  /\ tracker.loading > 0
  /\ tracker' = [ tracker EXCEPT !.hands = TRUE, !.initialized = TRUE, !.loading = @ - 1 ]
  /\ op' = TrackerOp("initialize", "resolved")
  /\ ManagerUnchanged
  /\ UNCHANGED smoother

(* loadMediaPipeHands rejected, and initialize() with it. *)
LoadRejected ==
  /\ tracker.loading > 0
  /\ tracker' = [ tracker EXCEPT !.loading = @ - 1 ]
  /\ op' = TrackerOp("initialize", "failed")
  /\ ManagerUnchanged
  /\ UNCHANGED smoother

(* start() without the test of initialized. *)
TrackerStart_unguarded ==
  /\ tracker.isTracking \/ tracker.requests < MaxRequests
  /\ IF tracker.isTracking
       THEN /\ tracker' = tracker
            /\ op' = TrackerOp("start", "tracking")
       ELSE /\ tracker' = requestFrame([ tracker EXCEPT !.isTracking = TRUE,
                                                         !.lastTimestamp = tracker.now ])
            /\ op' = TrackerOp("start", "started")
  /\ ManagerUnchanged
  /\ UNCHANGED smoother

TrackerStart ==
  /\ ~tracker.initialized \/ tracker.isTracking \/ tracker.requests < MaxRequests
  /\ IF ~tracker.initialized
       THEN /\ tracker' = tracker
            /\ op' = TrackerOp("start", "warned")
       ELSE IF tracker.isTracking
       THEN /\ tracker' = tracker
            /\ op' = TrackerOp("start", "tracking")
       ELSE /\ tracker' = requestFrame([ tracker EXCEPT !.isTracking = TRUE,
                                                         !.lastTimestamp = tracker.now ])
            /\ op' = TrackerOp("start", "started")
  /\ ManagerUnchanged
  /\ UNCHANGED smoother

TrackerStop ==
  /\ tracker' = StopTracking(tracker)
  /\ op' = TrackerOp("stop", IF tracker.isTracking THEN "stopped" ELSE "idle")
  /\ ManagerUnchanged
  /\ UNCHANGED smoother

(* dispose() without subject.complete(). *)
TrackerDispose_open ==
  /\ tracker' = [ StopTracking(tracker) EXCEPT !.hands = FALSE,
                                                !.videoElement = FALSE,
                                                !.initialized = FALSE,
                                                !.disposed = TRUE ]
  /\ smoother' = clear(smoother)
  /\ op' = TrackerOp("dispose", "disposed")
  /\ ManagerUnchanged

TrackerDispose ==
  /\ tracker' = SubjectComplete([ StopTracking(tracker) EXCEPT !.hands = FALSE,
                                                                !.videoElement = FALSE,
                                                                !.initialized = FALSE,
                                                                !.disposed = TRUE ])
  /\ smoother' = clear(smoother)
  /\ op' = TrackerOp("dispose", "disposed")
  /\ ManagerUnchanged

(* hands$.subscribe(observer): a completed subject completes the observer *)
(* at once and does not keep it.                                           *)
TrackerSubscribe(s) ==
  /\ ~tracker.received[s].subscribed
  /\ tracker' = IF tracker.completed
                  THEN [ tracker EXCEPT !.received[s].subscribed = TRUE,
                                        !.received[s].completed = TRUE ]
                  ELSE [ tracker EXCEPT !.received[s].subscribed = TRUE,
                                        !.observers = @ \cup {s} ]
  /\ op' = TrackerOp("subscribe", s)
  /\ ManagerUnchanged
  /\ UNCHANGED smoother

(* MediaPipe hands the landmarks it found in the image that was sent to    *)
(* the handler initialize() registered: processResults.                    *)
Results(results) ==
  /\ tracker.sending > 0
  /\ tracker.results < MaxResults
  /\ tracker' = SubjectNextFrame([ tracker EXCEPT !.results = @ + 1 ],
                                 ResultHands(smoother, results))
  /\ smoother' = SmootherAfterResults(smoother, results)
  /\ op' = TrackerOp("processResults", "emitted")
  /\ ManagerUnchanged

(* An animation frame runs processFrame() up to its await. *)
AnimationFrame(id) ==
  /\ id \in tracker.scheduled
  /\ \E t \in { [ tracker EXCEPT !.scheduled = @ \ {id} ] } :
       IF ~t.isTracking \/ ~t.hands \/ ~t.videoElement
         THEN /\ tracker' = t
              /\ op' = TrackerOp("processFrame", "returned")
       ELSE IF (t.now - t.lastTimestamp) * 40 * DEFAULT_HAND_TRACKER_CONFIG.targetFps < 1000
         THEN /\ t.requests < MaxRequests
              /\ tracker' = requestFrame(t)
              /\ op' = TrackerOp("processFrame", "throttled")
       ELSE /\ tracker' = [ t EXCEPT !.lastTimestamp = t.now, !.sending = @ + 1 ]
            /\ op' = TrackerOp("processFrame", "sent")
  /\ ManagerUnchanged
  /\ UNCHANGED smoother

(* hands.send settled, either way: the rest of processFrame(). *)
SendSettled ==
  /\ tracker.sending > 0
  /\ ~tracker.isTracking \/ tracker.requests < MaxRequests
  /\ tracker' = requestFrame([ tracker EXCEPT !.sending = @ - 1 ])
  /\ op' = TrackerOp("processFrame", "settled")
  /\ ManagerUnchanged
  /\ UNCHANGED smoother

(* performance.now() moves on. *)
ClockStep ==
  /\ tracker.now < MaxSteps
  /\ tracker' = [ tracker EXCEPT !.now = @ + 1 ]
  /\ op' = TrackerOp("clock", "step")
  /\ ManagerUnchanged
  /\ UNCHANGED smoother

NextTracker ==
  \/ TrackerInitialize
  \/ LoadResolved
  \/ LoadRejected
  \/ TrackerStart
  \/ TrackerStop
  \/ TrackerDispose
  \/ \E s \in TrackerSubscribers : TrackerSubscribe(s)
  \/ \E results \in ResultSets : Results(results)
  \/ \E id \in 1..MaxRequests : AnimationFrame(id)
  \/ SendSettled
  \/ ClockStep

SpecTracker == Init /\ [][NextTracker]_vars

(* C30: initialize() on an initialized tracker rejects and changes nothing; *)
(* start() on a tracker that is not initialized leaves isTracking false;    *)
(* start() on a tracking tracker and stop() on a stopped one change         *)
(* nothing; and a tracker that is tracking is initialized.                  *)
C30_TrackerLifecycle ==
  [][ /\ (op'.kind = "initialize" /\ op'.outcome \in {"rejected", "pending"}
          /\ tracker.initialized)
        => (op'.outcome = "rejected" /\ tracker' = tracker /\ tracker'.initialized)
      /\ (op'.kind = "start" /\ ~tracker.initialized)
        => (~tracker'.isTracking /\ tracker' = tracker)
      /\ (op'.kind = "start" /\ tracker.isTracking) => tracker' = tracker
      /\ (op'.kind = "stop" /\ ~tracker.isTracking) => tracker' = tracker
      /\ tracker'.isTracking => tracker'.initialized ]_vars

(* initialize() was rejected on a tracker that is tracking, with a frame   *)
(* sent and the next one requested.                                        *)
C30_Witness ==
  /\ op.kind = "initialize"
  /\ op.outcome = "rejected"
  /\ tracker.initialized
  /\ tracker.isTracking
  /\ tracker.sending > 0
  /\ tracker.scheduled # {}

(* C31: dispose() leaves the tracker neither tracking nor initialized and  *)
(* its subject completed, with every subscriber completed; and a completed *)
(* subject hands no frame to any subscriber.                               *)
C31_DisposeCompletes ==
  [][ /\ op'.kind = "dispose" =>
           /\ ~tracker'.isTracking
           /\ ~tracker'.initialized
           /\ tracker'.completed
           /\ \A s \in TrackerSubscribers :
                tracker'.received[s].subscribed => tracker'.received[s].completed
      /\ tracker.disposed =>
           \A s \in TrackerSubscribers :
             /\ tracker'.received[s].frames = tracker.received[s].frames
             /\ tracker'.received[s].subscribed => tracker'.received[s].completed ]_vars

(* Results arrive after dispose(): of the subscribers, one had frames and  *)
(* was completed by dispose(), the other subscribed afterwards.            *)
C31_Witness ==
  /\ op.kind = "processResults"
  /\ tracker.disposed
  /\ tracker.received["t1"].frames > 0
  /\ tracker.received["t1"].completed
  /\ tracker.received["t2"].frames = 0
  /\ tracker.received["t2"].completed

(***************************************************************************)
(* A LandmarkSmoother used on its own, made with a factor and a buffer     *)
(* size of the caller's.                                                   *)
(***************************************************************************)
MaxSamples == 4   \* calls of a run of SpecSmoother

BufferSizes == {0, 1, 2}

SmootherFactors == {300, 1500}

SmootherHands == {0, 1}

SmootherIndices == {WRIST, PINKY_TIP}

SmootherPoints == { Pt(0, 0, 0), Pt(1000, 1000, 0) }

SmootherLandmarks == { createMockLandmarks(300, 500), createMockLandmarks(600, 500) }

InitSmoother ==
  /\ InitManager
  /\ probe = NoProbe
  /\ smoother \in { LandmarkSmoother(factor, bufferSize) :
                      factor \in SmootherFactors, bufferSize \in BufferSizes }

SmootherVarsUnchanged ==
  UNCHANGED << subscription, attached, replaced, stateValue, observers, received,
               lastTimestamp, config, stageConfig, handHistory, gestureHistory,
               distanceHistory, frameCount, resetCount, sinceReset, prevTick, monotone,
               watch, everSeen, returned, prevFrame, probe, tracker >>

SmootherOp(kind, handId, landmarkIndex, current, result) ==
  [ kind |-> kind, handId |-> handId, landmarkIndex |-> landmarkIndex,
    current |-> current, result |-> result ]

SmoothLandmark(handId, landmarkIndex, current) ==
  /\ smoother.samples < MaxSamples
  /\ smoother' = Sampled(SmootherAfterLandmark(smoother, handId, landmarkIndex, current))
  /\ op' = SmootherOp("smoothLandmark", handId, landmarkIndex, current,
                      smoothLandmark(smoother, handId, landmarkIndex, current))
  /\ SmootherVarsUnchanged

SmoothLandmarks(handId, landmarks) ==
  /\ smoother.samples < MaxSamples
  /\ smoother' = Sampled(SmootherAfterLandmarks(smoother, handId, landmarks))
  /\ op' = SmootherOp("smoothLandmarks", handId, Null, landmarks,
                      smoothLandmarks(smoother, handId, landmarks))
  /\ SmootherVarsUnchanged

ClearHand(handId) ==
  /\ smoother.samples < MaxSamples
  /\ smoother' = Sampled(clearHand(smoother, handId))
  /\ op' = SmootherOp("clearHand", handId, Null, Null, Null)
  /\ SmootherVarsUnchanged

Clear ==
  /\ smoother.samples < MaxSamples
  /\ smoother' = Sampled(clear(smoother))
  /\ op' = SmootherOp("clear", Null, Null, Null, Null)
  /\ SmootherVarsUnchanged

NextSmoother ==
  \/ \E handId \in SmootherHands, landmarkIndex \in SmootherIndices, current \in SmootherPoints :
       SmoothLandmark(handId, landmarkIndex, current)
  \/ \E handId \in SmootherHands, landmarks \in SmootherLandmarks :
       SmoothLandmarks(handId, landmarks)
  \/ \E handId \in SmootherHands : ClearHand(handId)
  \/ Clear

SpecSmoother == InitSmoother /\ [][NextSmoother]_vars

(* The keys of the hands other than handId are left as they were. *)
OtherHandsUntouched(handId) ==
  /\ DOMAIN smoother'.buffer \ HandKeys(handId) = DOMAIN smoother.buffer \ HandKeys(handId)
  /\ \A key \in DOMAIN smoother.buffer \ HandKeys(handId) :
       smoother'.buffer[key] = smoother.buffer[key]

(* C32: the smoother keeps a history for each pair of a hand and a         *)
(* landmark index: a sample of a pair without history is returned as it    *)
(* is, clearHand and clear leave the pairs of the hand, or every pair,     *)
(* without history, a call for one hand leaves the histories of the other  *)
(* hands alone, and no history is longer than bufferSize.                  *)
C32_PerPairHistory ==
  [][ /\ (op'.kind = "smoothLandmark"
          /\ NoHistory(smoother, SmootherKey(op'.handId, op'.landmarkIndex)))
        => op'.result = op'.current
      /\ op'.kind = "smoothLandmark" =>
           \A key \in DOMAIN smoother.buffer \ {SmootherKey(op'.handId, op'.landmarkIndex)} :
             key \in DOMAIN smoother'.buffer /\ smoother'.buffer[key] = smoother.buffer[key]
      /\ op'.kind \in {"smoothLandmark", "smoothLandmarks", "clearHand"}
        => OtherHandsUntouched(op'.handId)
      /\ op'.kind = "clearHand" =>
           \A key \in HandKeys(op'.handId) : NoHistory(smoother', key)
      /\ op'.kind = "clear" => \A key \in DOMAIN smoother.buffer : NoHistory(smoother', key)
      /\ \A key \in DOMAIN smoother'.buffer :
           Len(smoother'.buffer[key]) <= smoother'.bufferSize ]_vars

(* Two joints of the finger that follow each other are in one place. *)
Coincide(landmarks, mcp) ==
  \E j \in mcp..(mcp + 2) : landmarks[j] = landmarks[j + 1]

(* The flag of the finger whose MCP joint is mcp. *)
FingerFlag(fingers, mcp) ==
  CASE mcp = INDEX_FINGER_MCP  -> fingers.index
    [] mcp = MIDDLE_FINGER_MCP -> fingers.middle
    [] mcp = RING_FINGER_MCP   -> fingers.ring
    [] mcp = PINKY_MCP         -> fingers.pinky

(* C33: a finger with two joints in one place has an angle of 0 there (the *)
(* cosine 1), is reported as not extended, and the hand is published with  *)
(* a gesture of the enumeration.                                           *)
C33_DegenerateAngleIsZero ==
  Tick =>
    \A i \in 1..Len(stateValue.hands) :
      \A mcp \in FingerMcps :
        Coincide(LandmarksOf[op.frame.hands[i]], mcp) =>
          /\ \/ JointAngleTable[LandmarksOf[op.frame.hands[i]]][mcp].pipAngle = Unit
             \/ JointAngleTable[LandmarksOf[op.frame.hands[i]]][mcp].dipAngle = Unit
          /\ ~FingerFlag(stateValue.hands[i].fingers, mcp)
          /\ stateValue.hands[i].gesture.type \in GestureType
          /\ stateValue.hands[i].isTracked

(* The hand with the fused index finger was published: the index finger is *)
(* not extended, the other three fingers are.                              *)
C33_Witness ==
  /\ Tick
  /\ Len(stateValue.hands) = 1
  /\ op.frame.hands[1].shape = "fused"
  /\ Coincide(LandmarksOf[op.frame.hands[1]], INDEX_FINGER_MCP)
  /\ ~stateValue.hands[1].fingers.index
  /\ stateValue.hands[1].fingers.middle
  /\ stateValue.hands[1].fingers.ring
  /\ stateValue.hands[1].fingers.pinky

(* C34: the gesture type published for a hand is the raw classification of *)
(* the tick if that has lasted minDuration and None if it has not; the     *)
(* type published on the hand's previous tick is not carried over.         *)
C34_RawOrNone ==
  Tick =>
    \A i \in 1..Len(stateValue.hands) :
      /\ stateValue.hands[i].gesture.type
           \in {watch[stateValue.hands[i].handId].raw, NONE}
      /\ stateValue.hands[i].gesture.type =
           IF stateValue.hands[i].gesture.duration >= stageConfig.gesture.minDuration
             THEN watch[stateValue.hands[i].handId].raw
             ELSE NONE

(* A hand published as an open hand on its previous tick is now classified *)
(* as a closed fist, and published as None.                                *)
C34_Witness ==
  /\ Tick
  /\ stageConfig.gesture.minDuration > 0
  /\ Len(stateValue.hands) = 1
  /\ watch[stateValue.hands[1].handId].before = Some(OPEN_HAND)
  /\ watch[stateValue.hands[1].handId].raw = CLOSED_FIST
  /\ stateValue.hands[1].gesture.type = NONE

(* C35: the confidence published for a hand is the one of the raw          *)
(* classification of the tick, whatever type is published with it.         *)
C35_ConfidenceOfRaw ==
  Tick =>
    \A i \in 1..Len(stateValue.hands) :
      stateValue.hands[i].gesture.confidence =
        calculateGestureConfidence(watch[stateValue.hands[i].handId].raw,
                                   stateValue.hands[i].fingers,
                                   stateValue.hands[i].openness.value)

(* A hand is published as None with the confidence of the closed fist it   *)
(* is classified as, which is not the confidence of None.                  *)
C35_Witness ==
  /\ Tick
  /\ Len(stateValue.hands) = 1
  /\ watch[stateValue.hands[1].handId].raw = CLOSED_FIST
  /\ stateValue.hands[1].gesture.type = NONE
  /\ stateValue.hands[1].gesture.confidence = Unit
  /\ calculateGestureConfidence(NONE, stateValue.hands[1].fingers,
                                stateValue.hands[1].openness.value) = 500

(* C36: after a tick the history of every hand of the frame holds the      *)
(* position published for the hand both as lastPosition and as             *)
(* smoothedPosition, and the two are the same in every entry of the        *)
(* history.                                                                *)
C36_BaseIsLastReported ==
  /\ Tick =>
       \A i \in 1..Len(stateValue.hands) :
         /\ stateValue.hands[i].handId \in DOMAIN handHistory
         /\ handHistory[stateValue.hands[i].handId].smoothedPosition
              = stateValue.hands[i].position
         /\ handHistory[stateValue.hands[i].handId].lastPosition
              = Some(stateValue.hands[i].position)
  /\ \A id \in DOMAIN handHistory :
       handHistory[id].lastPosition = Some(handHistory[id].smoothedPosition)

(* A hand moved and was published between its last position and the raw   *)
(* one.                                                                    *)
C36_Witness ==
  /\ Tick
  /\ stageConfig.position.smoothingEnabled
  /\ Len(stateValue.hands) = 1
  /\ stateValue.hands[1].velocity.magnitude > 0
  /\ stateValue.hands[1].position # RawPosition(op.frame, 1)
  /\ handHistory[stateValue.hands[1].handId].smoothedPosition = stateValue.hands[1].position

(* The position published for hand i of the frame is the one a hand with   *)
(* the history entry has: smoothed against the entry, with the velocity    *)
(* from the entry's last position and timestamp.                           *)
ContinuesHistory(desc, i, hand, entry) ==
  /\ hand.position =
       applyThreshold(IF stageConfig.position.smoothingEnabled
                        THEN smoothPosition(RawPosition(desc, i), entry.smoothedPosition,
                                            stageConfig.position)
                        ELSE RawPosition(desc, i),
                      entry.smoothedPosition, stageConfig.position)
  /\ hand.velocity = calculateVelocity(hand.position, entry.lastPosition,
                                       desc.timestamp, entry.lastTimestamp)

(* C37: stop() and start() leave the histories of the stages and the       *)
(* timestamp of the last tick as they are; the first frame processed after *)
(* a start() of a stopped manager that has processed frames has as         *)
(* deltaTime its timestamp minus that of the last frame processed, and a   *)
(* hand with an entry in the position history continues from that entry.   *)
C37_RestartKeepsHistory ==
  [][ /\ op'.kind \in {"stop", "start"} =>
           UNCHANGED << handHistory, gestureHistory, distanceHistory, lastTimestamp >>
      /\ (op.kind = "start" /\ replaced = NoSource /\ prevTick # Null
          /\ op'.kind = "frame" /\ op'.processed) =>
           /\ stateValue'.deltaTime = op'.frame.timestamp - prevTick[1]
           /\ \A i \in 1..Len(op'.frame.hands) :
                op'.frame.hands[i].id \in DOMAIN handHistory =>
                  ContinuesHistory(op'.frame, i, stateValue'.hands[i],
                                   handHistory[op'.frame.hands[i].id]) ]_vars

(* C38: with distance smoothing on, when the first hand of the frame has   *)
(* another id than the first hand of the frame processed before, the       *)
(* primaryPinch published is the weighted mean of the one measured and the *)
(* one published before, which was measured on the other hand.             *)
C38_SmoothedPerSlot ==
  [][ ( /\ op'.kind = "frame" /\ op'.processed
        /\ stageConfig.distance.smoothingEnabled
        /\ prevFrame # Null
        /\ Len(op'.frame.hands) >= 1
        /\ Len(prevFrame[1].hands) >= 1
        /\ op'.frame.hands[1].id # prevFrame[1].hands[1].id )
      => \A raw \in { RawMeasurements(op'.frame) } :
              stateValue'.custom["distances"].primaryPinch =
                Some(((Unit - stageConfig.distance.smoothingFactor) * raw.primaryPinch[1]
                      + stageConfig.distance.smoothingFactor * Distances.primaryPinch[1])
                     \div Unit) ]_vars

(* On the second tick the only hand is one that was not in the first       *)
(* frame, and its primaryPinch is published between the one measured and   *)
(* the one of the hand before.                                             *)
C38_Witness ==
  /\ Tick
  /\ sinceReset = 2
  /\ stageConfig.distance.smoothingEnabled
  /\ Len(stateValue.hands) = 1
  /\ watch[stateValue.hands[1].handId].before = Null
  /\ Distances.primaryPinch # RawMeasurements(op.frame).primaryPinch

(* C39: initialize() on a disposed tracker leaves the completed subject in *)
(* place, and while the tracker is initialized and tracking again no        *)
(* subscriber of hands$ is handed a frame, whenever it subscribed.          *)
C39_NoFrameAfterReinitialize ==
  [][ /\ (tracker.disposed /\ op'.kind = "initialize") =>
           /\ tracker'.completed
           /\ tracker'.observers = {}
      /\ (tracker.disposed /\ tracker.initialized /\ tracker.isTracking) =>
           /\ tracker'.completed
           /\ \A s \in TrackerSubscribers :
                tracker'.received[s].frames = tracker.received[s].frames ]_vars

(* Results arrive at a tracker disposed, initialized and started again,    *)
(* with a subscriber that has no frame and is completed.                   *)
C39_Witness ==
  /\ op.kind = "processResults"
  /\ tracker.disposed
  /\ tracker.initialized
  /\ tracker.isTracking
  /\ \E s \in TrackerSubscribers :
       /\ tracker.received[s].subscribed
       /\ tracker.received[s].frames = 0
       /\ tracker.received[s].completed

=============================================================================
